---- MODULE Spec2Model ----
(***************************************************************************)
(* Block graph execution engine of Protosynthesis (backend/).              *)
(*                                                                         *)
(* State: the in-memory project (main.py current_project), its Block       *)
(* objects (blocks.py) with their port dictionaries and Connector          *)
(* references, and the position of one execute_graph generator             *)
(* (main.py:46-129) together with the event stream it has yielded.         *)
(*                                                                         *)
(* Request handlers are atomic actions.  A run owns the project while it   *)
(* streams: editing handlers are taken only while no run is in progress.   *)
(* Block.register_input / register_output are called by the block types    *)
(* with metadata keywords (data_type, placeholder, description); metadata  *)
(* is not part of the modelled state.                                      *)
(***************************************************************************)
EXTENDS Integers, Sequences, FiniteSets, TLC

VARIABLES
    blocks,           \* Project.blocks: the ids in the project's map
    obj,              \* every Block object ever constructed, by id
    pc,               \* position of the execute_graph generator
    reachable_blocks, \* execute_graph: reachable_blocks
    in_degree,        \* execute_graph: in_degree
    graph,            \* execute_graph: graph
    ready_queue,      \* execute_graph: ready_queue
    current,          \* execute_graph: current_block_id
    events,           \* the stream of yielded events
    executed,         \* the blocks whose execute() was called, in call order
    saved,            \* a document returned by /api/project/save
    last              \* status of the last HTTP response

vars == <<blocks, obj, pc, reachable_blocks, in_degree, graph, ready_queue,
          current, events, executed, saved, last>>

runVars ==
    <<pc, reachable_blocks, in_degree, graph, ready_queue, current, events, executed>>

(***************************************************************************)
(* Bounds.                                                                 *)
(***************************************************************************)
MaxBlocks == 3
MaxConnectors == 3
MaxRunBlocks == 3
MaxRunConnectors == 2
MaxSaveBlocks == 2
MaxSaveConnectors == 1
MaxSmallBlocks == 2
MaxSmallConnectors == 1
MaxSmallEditBlocks == 2
MaxSmallEditConnectors == 2
MaxSchemaBlocks == 2
MaxSchemaConnectors == 1
MaxSchemaApiBlocks == 1
MaxDivideBlocks == 3
MaxDivideConnectors == 2
MaxGreetBlocks == 3
MaxGreetConnectors == 2
MaxRefBlocks == 3
MaxRefConnectors == 2
MaxRejectBlocks == 2
MaxRejectConnectors == 2
MaxOverwriteBlocks == 3
MaxOverwriteConnectors == 2
MaxDialogueBlocks == 3
MaxDialogueConnectors == 2
MaxTransformBlocks == 3
MaxTransformConnectors == 2
MaxTemplateBlocks == 2
MaxTemplateConnectors == 1
MaxReactBlocks == 2
MaxReactConnectors == 1
MaxCycleBlocks == 3
MaxCycleConnectors == 3
MaxPortsBlocks == 2
MaxPortsConnectors == 1
MaxPortsApiBlocks == 1

(***************************************************************************)
(* Values (Python Any), tagged so that every value has the same shape.     *)
(***************************************************************************)
NoneVal == [t |-> "none", n |-> 0, s |-> ""]
BoolVal(b) == [t |-> "bool", n |-> IF b THEN 1 ELSE 0, s |-> ""]
IntVal(k) == [t |-> "int", n |-> k, s |-> ""]
FloatVal(k) == [t |-> "float", n |-> k, s |-> ""]
StrVal(x) == [t |-> "str", n |-> 0, s |-> x]
ObjVal(x) == [t |-> "obj", n |-> 0, s |-> x]

(***************************************************************************)
(* Python dict helpers: d[k] = v creates the key when it is absent.        *)
(***************************************************************************)
EmptyDict == [k \in {} |-> NoneVal]
DictSet(d, k, v) == [x \in (DOMAIN d) \cup {k} |-> IF x = k THEN v ELSE d[x]]

SeqToSet(s) == {s[i] : i \in 1..Len(s)}
AppendNew(s, k) == IF k \in SeqToSet(s) THEN s ELSE Append(s, k)

(***************************************************************************)
(* Connector.  Two connectors with equal endpoints are distinct Python     *)
(* objects; n tells them apart.                                            *)
(***************************************************************************)
NoConnector ==
    [source_block |-> 0, source_output_key |-> "", target_block |-> 0,
     target_input_key |-> "", n |-> 0]

Connector(source_block, source_output_key, target_block, target_input_key, n) ==
    [source_block |-> source_block, source_output_key |-> source_output_key,
     target_block |-> target_block, target_input_key |-> target_input_key, n |-> n]

SameEnds(c, s, so, t, ti) ==
    /\ c.source_block = s
    /\ c.source_output_key = so
    /\ c.target_block = t
    /\ c.target_input_key = ti

(***************************************************************************)
(* Block.                                                                  *)
(***************************************************************************)
Block(block_type) ==
    [block_type |-> block_type,
     inputs |-> EmptyDict,
     outputs |-> EmptyDict,
     input_connectors |-> [k \in {} |-> NoConnector],
     output_connectors |-> [k \in {} |-> <<>>],
     out_order |-> <<>>,
     hidden_inputs |-> {},
     hidden_outputs |-> {},
     delay |-> NoneVal,
     operation |-> "",
     schema_key |-> "",
     url |-> "",
     method |-> "",
     template |-> <<>>,
     user_response |-> NoneVal,
     transformation_type |-> "",
     fields |-> <<>>]

register_input(b, key, default_value, hidden) ==
    [b EXCEPT !.inputs = DictSet(b.inputs, key, default_value),
              !.input_connectors = DictSet(b.input_connectors, key, NoConnector),
              !.hidden_inputs = IF hidden THEN @ \cup {key} ELSE @]

register_output(b, key, hidden) ==
    [b EXCEPT !.outputs = DictSet(b.outputs, key, NoneVal),
              !.output_connectors = DictSet(b.output_connectors, key, <<>>),
              !.out_order = AppendNew(@, key),
              !.hidden_outputs = IF hidden THEN @ \cup {key} ELSE @]

StartBlock == register_output(Block("START"), "start_signal", FALSE)

WaitBlock(delay) ==
    register_output(
        register_input([Block("WAIT") EXCEPT !.delay = delay], "trigger", NoneVal, TRUE),
        "done", FALSE)

LogicBlock(operation) ==
    register_output(register_output(register_output(
        register_input(register_input(
            [Block("LOGIC") EXCEPT !.operation = operation],
            "val_a", NoneVal, FALSE), "val_b", NoneVal, FALSE),
        "result", FALSE), "if_true", FALSE), "if_false", FALSE)

\* block_types/loop_block.py:10-18
LoopBlock ==
    register_output(register_output(register_output(register_output(
        register_input(register_input(Block("LOOP"),
            "trigger", NoneVal, TRUE), "list", NoneVal, FALSE),
        "item", FALSE), "index", FALSE), "loop_body_signal", FALSE),
        "done_signal", FALSE)

\* block_types/api_key_block.py:17-24
ApiKeyBlock ==
    register_output(register_input(Block("API_KEY"), "trigger", NoneVal, TRUE),
                    "key", FALSE)

\* block_types/dialogue_block.py:8-16
DialogueBlock(message) ==
    register_output(
        register_input(register_input(Block("DIALOGUE"),
            "trigger", NoneVal, TRUE), "message", StrVal(message), FALSE),
        "response", FALSE)

(***************************************************************************)
(* TransformBlock (block_types/transform_block.py).  fields is the list of *)
(* names that splitting the text at commas and stripping each part gives.  *)
(***************************************************************************)
RECURSIVE RegisterFieldInputs(_, _)
RegisterFieldInputs(b, field_list) ==
    IF field_list = <<>> THEN b
    ELSE RegisterFieldInputs(register_input(b, Head(field_list), NoneVal, FALSE),
                             Tail(field_list))

RECURSIVE RegisterFieldOutputs(_, _)
RegisterFieldOutputs(b, field_list) ==
    IF field_list = <<>> THEN b
    ELSE RegisterFieldOutputs(register_output(b, Head(field_list), FALSE),
                              Tail(field_list))

\* _update_ports (lines 33-59): every port of the block is deleted with the
\* block's own connector entries (hidden_inputs and hidden_outputs are not
\* touched), then the ports of the type are registered; a type that is none
\* of the four registers nothing
_update_ports(b) ==
    LET cleared == [b EXCEPT !.inputs = EmptyDict,
                             !.input_connectors = [k \in {} |-> NoConnector],
                             !.outputs = EmptyDict,
                             !.output_connectors = [k \in {} |-> <<>>],
                             !.out_order = <<>>]
    IN  CASE b.transformation_type \in {"to_string", "to_json"} ->
               register_output(register_input(cleared, "input", NoneVal, FALSE),
                               "result", FALSE)
          [] b.transformation_type = "params_to_json" ->
               RegisterFieldInputs(register_output(cleared, "result", FALSE), b.fields)
          [] b.transformation_type = "json_to_params" ->
               RegisterFieldOutputs(register_input(cleared, "input", NoneVal, FALSE),
                                    b.fields)
          [] OTHER -> cleared

\* TransformBlock.__init__ (lines 8-13)
TransformBlock(transformation_type, fields) ==
    _update_ports([Block("TRANSFORM") EXCEPT !.transformation_type = transformation_type,
                                            !.fields = fields])

\* the transformation_type setter (lines 19-22)
set_transformation_type(b, value) ==
    _update_ports([b EXCEPT !.transformation_type = value])

(***************************************************************************)
(* ReactBlock (block_types/react_block.py).  The lists update_ports is     *)
(* given are held as the lists of the keys of their items.                 *)
(***************************************************************************)
\* ReactBlock.__init__ (lines 8-15)
ReactBlock ==
    register_output(register_input(Block("REACT"), "data_in", NoneVal, FALSE),
                    "data_out", FALSE)

RECURSIVE AddInputs(_, _)
AddInputs(b, inputs_list) ==
    IF inputs_list = <<>> THEN b
    ELSE AddInputs(IF Head(inputs_list) \notin DOMAIN b.inputs
                   THEN register_input(b, Head(inputs_list), NoneVal, FALSE)
                   ELSE b,
                   Tail(inputs_list))

RECURSIVE AddOutputs(_, _)
AddOutputs(b, outputs_list) ==
    IF outputs_list = <<>> THEN b
    ELSE AddOutputs(IF Head(outputs_list) \notin DOMAIN b.outputs
                    THEN register_output(b, Head(outputs_list), FALSE)
                    ELSE b,
                    Tail(outputs_list))

\* a variant that registers every listed key, the ones the block has too
update_ports_registering_all(b, inputs_list, outputs_list) ==
    RegisterFieldOutputs(RegisterFieldInputs(
        [b EXCEPT !.inputs = [k \in (DOMAIN @) \cap SeqToSet(inputs_list) |-> @[k]],
                  !.input_connectors = [k \in (DOMAIN @) \cap SeqToSet(inputs_list) |-> @[k]],
                  !.outputs = [k \in (DOMAIN @) \cap SeqToSet(outputs_list) |-> @[k]],
                  !.output_connectors = [k \in (DOMAIN @) \cap SeqToSet(outputs_list) |-> @[k]]],
        inputs_list), outputs_list)

\* update_ports (lines 23-56)
update_ports(b, inputs_list, outputs_list) ==
    LET new_input_keys == SeqToSet(inputs_list)
        new_output_keys == SeqToSet(outputs_list)
        Kept(k) == k \in new_output_keys
        removed == [b EXCEPT
            !.inputs = [k \in (DOMAIN @) \cap new_input_keys |-> @[k]],
            !.input_connectors =
                [k \in (DOMAIN @) \ ((DOMAIN b.inputs) \ new_input_keys) |-> @[k]],
            !.outputs = [k \in (DOMAIN @) \cap new_output_keys |-> @[k]],
            !.output_connectors =
                [k \in (DOMAIN @) \ ((DOMAIN b.outputs) \ new_output_keys) |-> @[k]],
            !.out_order = SelectSeq(@, Kept)]
    IN  AddOutputs(AddInputs(removed, inputs_list), outputs_list)

(***************************************************************************)
(* StringBuilderBlock (block_types/string_builder_block.py).  A template   *)
(* is held as the sequence of parts the pattern \{\{(\w+)\}\} cuts it into:   *)
(* the text between two matches, and the identifier of a match.            *)
(***************************************************************************)
Literal(text) == [placeholder |-> FALSE, s |-> text]
Placeholder(key) == [placeholder |-> TRUE, s |-> key]

\* re.findall(...) of line 43
Placeholders(template) ==
    {template[i].s : i \in {j \in DOMAIN template : template[j].placeholder}}

\* lines 38-55; the new inputs are registered in the iteration order of a
\* set, which the resulting ports do not depend on
_update_inputs_from_template(b) ==
    LET current_inputs == (DOMAIN b.inputs) \ {"trigger", "message_text"}
        new_inputs == (Placeholders(b.template) \ current_inputs) \ {"message_text"}
        RECURSIVE Register(_, _)
        Register(blk, keys) ==
            IF keys = {} THEN blk
            ELSE LET key == CHOOSE k \in keys : TRUE
                 IN  Register(register_input(blk, key, NoneVal, FALSE), keys \ {key})
    IN  Register(b, new_inputs)

\* the template setter (lines 32-36)
set_template(b, new_template) ==
    _update_inputs_from_template([b EXCEPT !.template = new_template])

\* lines 13-25
StringBuilderBlock(template) ==
    _update_inputs_from_template(
        [register_output(register_output(
            register_input(register_input(Block("STRING_BUILDER"),
                "trigger", NoneVal, TRUE), "message_text", StrVal(""), FALSE),
            "result", FALSE), "result_json", FALSE)
         EXCEPT !.template = template])

(***************************************************************************)
(* API_SCHEMAS (api_schemas.py) and APIBlock (block_types/api_block.py).   *)
(* A schema lists its inputs as <<group, key, default, hidden>> ("" is the *)
(* flat layout of the custom schema) and its outputs as <<key, hidden>>.   *)
(***************************************************************************)
API_SCHEMAS ==
    [k \in {"custom", "cat_fact", "agify"} |->
        CASE k = "custom" ->
               [url |-> "", method |-> "GET",
                inputs |-> << <<"", "url", StrVal("https://httpbin.org/get"), FALSE>>,
                              <<"", "params", ObjVal("{}"), FALSE>>,
                              <<"", "body", ObjVal("{}"), FALSE>>,
                              <<"", "headers", ObjVal("{}"), FALSE>> >>,
                outputs |-> << <<"response_json", FALSE>>, <<"status_code", FALSE>> >>]
          [] k = "cat_fact" ->
               [url |-> "https://catfact.ninja/fact", method |-> "GET",
                inputs |-> << >>,
                outputs |-> << <<"fact", FALSE>>, <<"length", FALSE>> >>]
          [] k = "agify" ->
               [url |-> "https://api.agify.io", method |-> "GET",
                inputs |-> << <<"params", "name", StrVal("michael"), FALSE>> >>,
                outputs |-> << <<"age", FALSE>>, <<"count", FALSE>>, <<"name", FALSE>> >>]]

core_inputs == {"trigger"}
core_outputs == {"response_json", "status_code", "error"}

_clear_dynamic_inputs(b) ==
    LET keep == (DOMAIN b.inputs) \cap core_inputs
    IN  [b EXCEPT !.inputs = [k \in keep |-> b.inputs[k]],
                  !.input_connectors =
                      [k \in (DOMAIN @) \ ((DOMAIN b.inputs) \ core_inputs) |-> @[k]]]

_clear_dynamic_outputs(b) ==
    LET gone == (DOMAIN b.outputs) \ core_outputs
        Kept(k) == k \notin gone
    IN  [b EXCEPT !.outputs = [k \in (DOMAIN @) \ gone |-> @[k]],
                  !.output_connectors = [k \in (DOMAIN @) \ gone |-> @[k]],
                  !.out_order = SelectSeq(@, Kept)]

RECURSIVE RegisterInputs(_, _)
RegisterInputs(b, specs) ==
    IF specs = <<>> THEN b
    ELSE RegisterInputs(
            register_input(b, Head(specs)[2], Head(specs)[3], Head(specs)[4]),
            Tail(specs))

RECURSIVE RegisterOutputs(_, _)
RegisterOutputs(b, specs) ==
    IF specs = <<>> THEN b
    ELSE RegisterOutputs(register_output(b, Head(specs)[1], Head(specs)[2]), Tail(specs))

\* a variant that looks the schema up under the key the block had before
LookupSchema_stale(b, schema_key) ==
    IF b.schema_key \in DOMAIN API_SCHEMAS THEN API_SCHEMAS[b.schema_key]
    ELSE API_SCHEMAS["custom"]

\* line 57: API_SCHEMAS.get(schema_key, API_SCHEMAS["custom"])
LookupSchema(b, schema_key) ==
    IF schema_key \in DOMAIN API_SCHEMAS THEN API_SCHEMAS[schema_key]
    ELSE API_SCHEMAS["custom"]

InputGroups == <<"path", "params", "body", "headers">>

\* apply_schema (lines 54-88).  The branch is chosen by the key, the schema
\* by the lookup: under a key other than "custom" the inputs are read as
\* groups of ports, and an input of a flat schema that bears the name of a
\* group is then iterated as a group, which raises AttributeError at its
\* first item (meta is a str) after the dynamic ports were cleared.
apply_schema_result(b, schema_key) ==
    LET schema == LookupSchema(b, schema_key)
        b1 == [b EXCEPT !.schema_key = schema_key, !.url = schema.url,
                        !.method = schema.method]
        b2 == _clear_dynamic_outputs(_clear_dynamic_inputs(b1))
        InGroup(g) == LET Is(x) == x[1] = g IN SelectSeq(schema.inputs, Is)
        IsGroup(x) == x[1] = "" /\ x[2] \in SeqToSet(InputGroups)
        raised == schema_key # "custom" /\ SelectSeq(schema.inputs, IsGroup) # <<>>
        b3 == IF schema_key = "custom"
              THEN RegisterInputs(b2, InGroup(""))
              ELSE RegisterInputs(b2, InGroup("path") \o InGroup("params")
                                        \o InGroup("body") \o InGroup("headers"))
    IN  IF raised THEN [raised |-> TRUE, block |-> b2]
        ELSE [raised |-> FALSE, block |-> RegisterOutputs(b3, schema.outputs)]

apply_schema(b, schema_key) == apply_schema_result(b, schema_key).block

\* APIBlock.__init__ (lines 33-52)
APIBlock(schema_key) ==
    apply_schema(
        [register_output(register_output(register_output(
            register_input(Block("API"), "trigger", NoneVal, TRUE),
            "response_json", FALSE), "status_code", FALSE), "error", FALSE)
         EXCEPT !.schema_key = "custom", !.url = "", !.method = "GET"],
        schema_key)

(***************************************************************************)
(* Block.connect (blocks.py:83-93).                                        *)
(***************************************************************************)
\* a variant that checks the source's key alone
ConnectOk_source_only(o, src, output_key, tgt, input_key) ==
    output_key \in DOMAIN o[src].outputs

ConnectOk(o, src, output_key, tgt, input_key) ==
    /\ output_key \in DOMAIN o[src].outputs
    /\ input_key \in DOMAIN o[tgt].inputs

NewConnector(o, src, output_key, tgt, input_key) ==
    LET Same(c) == SameEnds(c, src, output_key, tgt, input_key)
    IN  Connector(src, output_key, tgt, input_key,
                  Len(SelectSeq(o[src].output_connectors[output_key], Same)))

\* a variant that leaves an input's incoming reference alone once it is bound
connect_keep_first(o, src, output_key, tgt, input_key) ==
    LET connector == NewConnector(o, src, output_key, tgt, input_key)
        o1 == [o EXCEPT ![src].output_connectors[output_key] = Append(@, connector)]
    IN  IF o[tgt].input_connectors[input_key] # NoConnector THEN o1
        ELSE [o1 EXCEPT ![tgt].input_connectors = DictSet(@, input_key, connector)]

connect(o, src, output_key, tgt, input_key) ==
    LET connector == NewConnector(o, src, output_key, tgt, input_key)
        o1 == [o EXCEPT ![src].output_connectors[output_key] = Append(@, connector)]
    IN  [o1 EXCEPT ![tgt].input_connectors = DictSet(@, input_key, connector)]

(***************************************************************************)
(* Connectors held in the outgoing lists of a block, in dict/list order.   *)
(***************************************************************************)
RECURSIVE FlattenLists(_, _)
FlattenLists(lists, order) ==
    IF order = <<>> THEN <<>>
    ELSE (IF Head(order) \in DOMAIN lists THEN lists[Head(order)] ELSE <<>>)
         \o FlattenLists(lists, Tail(order))

Outgoing(b) == FlattenLists(b.output_connectors, b.out_order)

IncomingRefs(b) ==
    {b.input_connectors[k] : k \in DOMAIN b.input_connectors} \ {NoConnector}

(***************************************************************************)
(* Project.remove_block (project.py:32-51).                                *)
(***************************************************************************)
DisconnectInputs(o, block_id) ==
    LET refs == IncomingRefs(o[block_id])
        Keep(c) == c \notin refs
    IN  [b \in DOMAIN o |->
            [o[b] EXCEPT !.output_connectors =
                [k \in DOMAIN @ |-> SelectSeq(@[k], Keep)]]]

DisconnectOutputs(o, block_id) ==
    LET cleared == {<<c.target_block, c.target_input_key>> :
                        c \in SeqToSet(Outgoing(o[block_id]))}
    IN  [b \in DOMAIN o |->
            [o[b] EXCEPT !.input_connectors =
                [k \in (DOMAIN @) \cup {p[2] : p \in {q \in cleared : q[1] = b}} |->
                    IF <<b, k>> \in cleared THEN NoConnector ELSE @[k]]]]

remove_block(o, block_id) == DisconnectOutputs(DisconnectInputs(o, block_id), block_id)

(***************************************************************************)
(* remove_connection (main.py:428-465): the connectors it removes and the  *)
(* project afterwards.                                                     *)
(***************************************************************************)
ToRemove(o, src, output_key, tgt, input_key) ==
    LET Match(c) == c.target_block = tgt /\ c.target_input_key = input_key
    IN  IF output_key \in DOMAIN o[src].output_connectors
        THEN SelectSeq(o[src].output_connectors[output_key], Match)
        ELSE <<>>

disconnect(o, src, output_key, tgt, input_key) ==
    LET gone == SeqToSet(ToRemove(o, src, output_key, tgt, input_key))
        Keep(c) == c \notin gone
        o1 == [o EXCEPT ![src].output_connectors[output_key] = SelectSeq(@, Keep)]
    IN  [o1 EXCEPT ![tgt].input_connectors = DictSet(@, input_key, NoConnector)]

(***************************************************************************)
(* Block objects are kept alive by references: the project's map, a        *)
(* connector's source_block and target_block.  An object no reference      *)
(* leads to is reclaimed, and its id (a uuid4 nothing remembers) is free.  *)
(***************************************************************************)
Refs(o, b) ==
    {c.target_block : c \in SeqToSet(Outgoing(o[b]))}
        \cup {c.source_block : c \in IncomingRefs(o[b])}

RECURSIVE Alive(_, _)
Alive(o, S) ==
    LET more == (UNION {Refs(o, b) : b \in S}) \cap DOMAIN o
    IN  IF more \subseteq S THEN S ELSE Alive(o, S \cup more)

Collect(o, map) == [b \in Alive(o, map) |-> o[b]]

FreshId(o) == CHOOSE i \in 1..(Cardinality(DOMAIN o) + 1) : i \notin DOMAIN o

(***************************************************************************)
(* Python conversions used by the blocks' execute().  Numbers are          *)
(* integral; a float prints with ".0".                                     *)
(***************************************************************************)
Digits == <<"0", "1", "2", "3", "4", "5", "6", "7", "8", "9">>

RECURSIVE NatStr(_)
NatStr(k) == IF k < 10 THEN Digits[k + 1] ELSE NatStr(k \div 10) \o Digits[(k % 10) + 1]

IntStr(k) == IF k < 0 THEN "-" \o NatStr(0 - k) ELSE NatStr(k)

\* str(v)
PyStr(v) ==
    CASE v.t = "none" -> "None"
      [] v.t = "bool" -> (IF v.n = 1 THEN "True" ELSE "False")
      [] v.t = "int" -> IntStr(v.n)
      [] v.t = "float" -> IntStr(v.n) \o ".0"
      [] OTHER -> v.s

\* bool(v)
PyBool(v) ==
    CASE v.t = "none" -> FALSE
      [] v.t \in {"bool", "int", "float"} -> v.n # 0
      [] v.t = "str" -> v.s # ""
      [] OTHER -> v.s \notin {"{}", "[]"}

NumericStrings == [x \in {"0", "1", "2", "10"} |->
                      CASE x = "0" -> 0 [] x = "1" -> 1 [] x = "2" -> 2 [] x = "10" -> 10]

\* float(v) returns for these values and raises for the others
FloatOk(v) ==
    \/ v.t \in {"bool", "int", "float"}
    \/ v.t = "str" /\ v.s \in DOMAIN NumericStrings

FloatOf(v) == IF v.t = "str" THEN NumericStrings[v.s] ELSE v.n

\* a == b
PyEq(a, b) ==
    IF a.t \in {"bool", "int", "float"} /\ b.t \in {"bool", "int", "float"}
    THEN a.n = b.n
    ELSE a = b

(***************************************************************************)
(* execute() of each block type: the set of outcomes, each the outputs     *)
(* left behind and whether an exception left execute().                    *)
(***************************************************************************)
Outcome(raised, outputs) == [raised |-> raised, outputs |-> outputs]

Get(d, k) == IF k \in DOMAIN d THEN d[k] ELSE NoneVal

\* a variant that leaves the signal as it was
StartExecute_unset(b) == {Outcome(FALSE, b.outputs)}

StartExecute(b) == {Outcome(FALSE, DictSet(b.outputs, "start_signal", BoolVal(TRUE)))}

WaitExecute(b) ==
    IF FloatOk(b.delay)
    THEN {Outcome(FALSE, DictSet(b.outputs, "done", BoolVal(TRUE)))}
    ELSE {Outcome(TRUE, b.outputs)}

\* LogicBlock.execute, lines 21-53: the value left in outputs["result"]
LogicResult(operation, val_a, val_b) ==
    LET both == FloatOk(val_a) /\ FloatOk(val_b)
        x == FloatOf(val_a)
        y == FloatOf(val_b)
    IN  CASE operation = "add" ->
               (IF both THEN FloatVal(x + y) ELSE StrVal(PyStr(val_a) \o PyStr(val_b)))
          [] operation = "subtract" -> (IF both THEN FloatVal(x - y) ELSE NoneVal)
          [] operation = "multiply" -> (IF both THEN FloatVal(x * y) ELSE NoneVal)
          [] operation = "divide" ->
               (IF both /\ y # 0 THEN FloatVal(x \div y) ELSE NoneVal)
          [] operation = "equals" -> BoolVal(PyEq(val_a, val_b))
          [] operation = "not_equals" -> BoolVal(~PyEq(val_a, val_b))
          [] operation = "greater_than" -> (IF both THEN BoolVal(x > y) ELSE NoneVal)
          [] operation = "less_than" -> (IF both THEN BoolVal(x < y) ELSE NoneVal)
          [] operation = "and" -> BoolVal(PyBool(val_a) /\ PyBool(val_b))
          [] operation = "or" -> BoolVal(PyBool(val_a) \/ PyBool(val_b))
          [] OTHER -> NoneVal

\* a variant that sets neither flag when no result was computed
LogicExecute_no_flag(b) ==
    LET result == LogicResult(b.operation, Get(b.inputs, "val_a"), Get(b.inputs, "val_b"))
        o1 == DictSet(b.outputs, "result", result)
        o2 == DictSet(o1, "if_true", BoolVal(PyBool(result)))
    IN  {Outcome(FALSE, DictSet(o2, "if_false", BoolVal(result # NoneVal /\ ~PyBool(result))))}

LogicExecute(b) ==
    LET result == LogicResult(b.operation, Get(b.inputs, "val_a"), Get(b.inputs, "val_b"))
        is_true == PyBool(result)
        o1 == DictSet(b.outputs, "result", result)
        o2 == DictSet(o1, "if_true", BoolVal(is_true))
    IN  {Outcome(FALSE, DictSet(o2, "if_false", BoolVal(~is_true)))}

\* json.loads of the texts it accepts; every other text raises JSONDecodeError
JsonTexts ==
    [x \in {"0", "1", "2", "10", "{}", "true", "false", "null"} |->
        CASE x \in {"0", "1", "2", "10"} -> IntVal(NumericStrings[x])
          [] x = "{}" -> ObjVal("{}")
          [] x = "true" -> BoolVal(TRUE)
          [] x = "false" -> BoolVal(FALSE)
          [] x = "null" -> NoneVal]

\* replace_match (string_builder_block.py:65-77): dicts and lists are held
\* as their JSON text
ReplaceMatch(inputs, key) ==
    LET val == Get(inputs, key)
    IN  IF val = NoneVal THEN "" ELSE PyStr(val)

\* re.sub (line 79)
RECURSIVE Substitute(_, _)
Substitute(template, inputs) ==
    IF template = <<>> THEN ""
    ELSE (IF Head(template).placeholder THEN ReplaceMatch(inputs, Head(template).s)
          ELSE Head(template).s)
         \o Substitute(Tail(template), inputs)

\* StringBuilderBlock.execute (lines 57-89)
StringBuilderExecute(b) ==
    LET result == Substitute(b.template, b.inputs)
        o1 == DictSet(b.outputs, "result", StrVal(result))
    IN  {Outcome(FALSE, DictSet(o1, "result_json",
            IF result \in DOMAIN JsonTexts THEN JsonTexts[result] ELSE NoneVal))}

(***************************************************************************)
(* _get_nested_value (block_types/api_block.py:7-26).  A decoded JSON list *)
(* or dict is a value that holds its items or its members; a path is held  *)
(* as the list of segments path.split('.') cuts it into.                   *)
(***************************************************************************)
ListVal(items) == [t |-> "list", n |-> 0, s |-> "", items |-> items]
DictVal(members) == [t |-> "dict", n |-> 0, s |-> "", members |-> members]

\* int(key) returns for these texts and raises ValueError for the others
IntTexts ==
    [x \in {"0", "1", "5", "-1", "-3"} |->
        CASE x = "0" -> 0 [] x = "1" -> 1 [] x = "5" -> 5 [] x = "-1" -> 0 - 1
          [] x = "-3" -> 0 - 3]

\* current[int(key)] of line 17: the item, or None where IndexError or
\* ValueError is caught; a negative index counts from the end of the list
ListItem(items, key) ==
    IF key \notin DOMAIN IntTexts THEN NoneVal
    ELSE LET i == IntTexts[key]
         IN  IF i >= 0 /\ i < Len(items) THEN items[i + 1]
             ELSE IF i < 0 /\ 0 - i <= Len(items) THEN items[Len(items) + i + 1]
             ELSE NoneVal

RECURSIVE _get_nested_value(_, _)
_get_nested_value(data, keys) ==
    IF keys = <<>> THEN data
    ELSE LET key == Head(keys)
             value == IF data.t = "list" THEN ListItem(data.items, key)
                      ELSE IF data.t = "dict" THEN Get(data.members, key)
                      ELSE NoneVal
         IN  IF value = NoneVal THEN NoneVal
             ELSE _get_nested_value(value, Tail(keys))

\* What the HTTP request of an API block can come back with.
Responses ==
    {[kind |-> "json", status |-> 200, keys |-> {"fact", "length"}],
     [kind |-> "json", status |-> 200, keys |-> {}],
     [kind |-> "null", status |-> 200, keys |-> {}],
     [kind |-> "http_error", status |-> 500, keys |-> {}],
     [kind |-> "no_response", status |-> 0, keys |-> {}]}

RECURSIVE MapOutputs(_, _, _)
MapOutputs(outputs, specs, keys) ==
    IF specs = <<>> THEN outputs
    ELSE LET key == Head(specs)[1]
         IN  MapOutputs(IF key \in keys
                        THEN DictSet(outputs, key, StrVal("response." \o key))
                        ELSE outputs,
                        Tail(specs), keys)

APIExecute(b) ==
    LET reset == [k \in DOMAIN b.outputs |-> NoneVal]
        schema == LookupSchema(b, b.schema_key)
        Error(o, msg) == DictSet(o, "error", StrVal(msg))
        Reply(r) ==
            LET o1 == DictSet(reset, "status_code", IntVal(r.status))
            IN  CASE r.kind = "json" ->
                       Outcome(FALSE, MapOutputs(
                           DictSet(o1, "response_json", ObjVal("response")),
                           schema.outputs, r.keys))
                  [] r.kind = "null" ->
                       Outcome(schema.outputs # <<>>,
                               DictSet(o1, "response_json", NoneVal))
                  [] r.kind = "http_error" ->
                       Outcome(FALSE, DictSet(Error(o1, "Network request failed"),
                                              "response_json", ObjVal("error response")))
                  [] OTHER -> Outcome(FALSE, Error(reset, "Network request failed"))
    IN  IF Get(b.inputs, "trigger") = BoolVal(FALSE)
        THEN {Outcome(FALSE, Error(reset, "Skipped: Trigger condition not met."))}
        ELSE IF b.url = ""
        THEN {Outcome(FALSE, Error(reset, "API URL is not set."))}
        ELSE {Reply(r) : r \in Responses}

RECURSIVE SetFields(_, _, _)
SetFields(outputs, field_list, found) ==
    IF field_list = <<>> THEN outputs
    ELSE SetFields(DictSet(outputs, Head(field_list),
                           IF found THEN StrVal("input." \o Head(field_list)) ELSE NoneVal),
                   Tail(field_list), found)

\* TransformBlock.execute (lines 61-92).  What an object other than {} holds
\* under a field is not part of the value: the field is found or it is not.
TransformExecute(b) ==
    LET data == Get(b.inputs, "input")
    IN  CASE b.transformation_type = "to_string" ->
               {Outcome(FALSE, DictSet(b.outputs, "result", StrVal(PyStr(data))))}
          [] b.transformation_type = "to_json" ->
               {Outcome(FALSE, DictSet(b.outputs, "result",
                    IF data.t = "str" /\ data.s \in DOMAIN JsonTexts
                    THEN JsonTexts[data.s] ELSE ObjVal("{}")))}
          [] b.transformation_type = "params_to_json" ->
               {Outcome(FALSE, DictSet(b.outputs, "result", ObjVal("params")))}
          [] b.transformation_type = "json_to_params" ->
               {Outcome(FALSE, SetFields(b.outputs, b.fields, found)) :
                    found \in IF data.t = "obj" /\ data.s # "{}"
                              THEN {TRUE, FALSE} ELSE {FALSE}}
          [] OTHER ->
               {Outcome(FALSE, DictSet(b.outputs, "result", data))}

ExecOutcomes(b) ==
    CASE b.block_type = "START" -> StartExecute(b)
      [] b.block_type = "WAIT" -> WaitExecute(b)
      [] b.block_type = "LOGIC" -> LogicExecute(b)
      [] b.block_type = "API" -> APIExecute(b)
      [] b.block_type = "STRING_BUILDER" -> StringBuilderExecute(b)
      [] b.block_type = "TRANSFORM" -> TransformExecute(b)

(***************************************************************************)
(* Block.fetch_inputs (blocks.py:95-104).  No handler passes a modifier,   *)
(* so transfer() is the identity.                                          *)
(***************************************************************************)
\* a variant that also resets the inputs that have no connector
fetch_inputs_resetting(o, id) ==
    [o EXCEPT ![id].inputs =
        [key \in DOMAIN @ |->
            IF o[id].input_connectors[key] # NoConnector
            THEN LET connector == o[id].input_connectors[key]
                 IN  Get(o[connector.source_block].outputs, connector.source_output_key)
            ELSE NoneVal]]

fetch_inputs(o, id) ==
    [o EXCEPT ![id].inputs =
        [key \in DOMAIN @ |->
            IF key \in DOMAIN o[id].input_connectors
               /\ o[id].input_connectors[key] # NoConnector
            THEN LET connector == o[id].input_connectors[key]
                 IN  Get(o[connector.source_block].outputs, connector.source_output_key)
            ELSE @[key]]]

(***************************************************************************)
(* execute_graph (main.py:46-129).                                         *)
(***************************************************************************)
RECURSIVE SetToSeq(_)
SetToSeq(S) ==
    IF S = {} THEN <<>>
    ELSE LET m == CHOOSE x \in S : \A y \in S : x <= y
         IN  <<m>> \o SetToSeq(S \ {m})

Targets(o, b) ==
    LET out == Outgoing(o[b])
    IN  [i \in 1..Len(out) |-> out[i].target_block]

\* a variant that takes every block of the project as reachable
Discover_all(o, queue, reachable) == blocks

\* 1. Discovery (lines 51-61)
RECURSIVE Discover(_, _, _)
Discover(o, queue, reachable) ==
    IF queue = <<>> THEN reachable
    ELSE LET block == Head(queue)
         IN  IF block \in reachable
             THEN Discover(o, Tail(queue), reachable)
             ELSE Discover(o, Tail(queue) \o Targets(o, block), reachable \cup {block})

\* 2. Dependency graph (lines 63-76)
BuildGraph(o, reachable) ==
    [b \in reachable |->
        LET In(t) == t \in reachable IN SelectSeq(Targets(o, b), In)]

RECURSIVE CountIn(_, _)
CountIn(targets, t) ==
    IF targets = <<>> THEN 0
    ELSE (IF Head(targets) = t THEN 1 ELSE 0) + CountIn(Tail(targets), t)

\* a variant that does not count a block's connectors into itself
BuildInDegree_ignoring_self(g) ==
    LET RECURSIVE Sum(_, _)
        Sum(S, t) == IF S = {} THEN 0
                     ELSE LET b == CHOOSE x \in S : TRUE
                          IN  (IF b = t THEN 0 ELSE CountIn(g[b], t)) + Sum(S \ {b}, t)
    IN  [t \in DOMAIN g |-> Sum(DOMAIN g, t)]

BuildInDegree(g) ==
    LET RECURSIVE Sum(_, _)
        Sum(S, t) == IF S = {} THEN 0
                     ELSE LET b == CHOOSE x \in S : TRUE
                          IN  CountIn(g[b], t) + Sum(S \ {b}, t)
    IN  [t \in DOMAIN g |-> Sum(DOMAIN g, t)]

\* the orders in which a set can be iterated
Orders(S) ==
    {q \in [1..Cardinality(S) -> S] : \A i, j \in 1..Cardinality(S) : q[i] = q[j] => i = j}

\* a variant that seeds the queue with every reachable block
InitialReady_all(deg) == Orders(DOMAIN deg)

\* 3. (line 79) the dict in_degree is filled in the iteration order of a set
InitialReady(deg) == Orders({b \in DOMAIN deg : deg[b] = 0})

\* a variant that enqueues a block one connector early
Ready_early(degree) == degree <= 1

\* lines 123-127
Ready(degree) == degree = 0

RECURSIVE Propagate(_, _, _)
Propagate(neighbors, deg, queue) ==
    IF neighbors = <<>> THEN [in_degree |-> deg, ready_queue |-> queue]
    ELSE LET neighbor_id == Head(neighbors)
             d == deg[neighbor_id] - 1
         IN  Propagate(Tail(neighbors),
                       [deg EXCEPT ![neighbor_id] = d],
                       IF Ready(d) THEN Append(queue, neighbor_id) ELSE queue)

Event(type, block_id) == [type |-> type, block_id |-> block_id]

\* a variant that starts the run from every block of the project
StartNodes_all == blocks

StartNodes == {b \in blocks : obj[b].block_type = "START"}

Idle == pc = "idle"

Status(track, status) == IF track THEN status ELSE "-"

\* run_graph (main.py:144-169) up to the generator's first yield
run_graph(track) ==
    /\ Idle
    /\ IF blocks = {}
       THEN /\ last' = Status(track, "no_graph")
            /\ UNCHANGED runVars
       ELSE IF StartNodes = {}
       THEN /\ last' = Status(track, "no_start")
            /\ UNCHANGED runVars
       ELSE LET reachable == Discover(obj, SetToSeq(StartNodes), {})
                g == BuildGraph(obj, reachable)
                deg == BuildInDegree(g)
            IN  /\ reachable_blocks' = reachable
                /\ graph' = g
                /\ in_degree' = deg
                /\ ready_queue' \in InitialReady(deg)
                /\ pc' = "ready"
                /\ last' = Status(track, "streaming")
                /\ UNCHANGED <<current, events, executed>>
    /\ UNCHANGED <<blocks, obj, saved>>

\* lines 82-95: dequeue, fetch_inputs, yield the start event
block_start ==
    /\ pc = "ready"
    /\ ready_queue # <<>>
    /\ current' = Head(ready_queue)
    /\ ready_queue' = Tail(ready_queue)
    /\ obj' = fetch_inputs(obj, Head(ready_queue))
    /\ events' = Append(events, Event("start", Head(ready_queue)))
    /\ pc' = "exec"
    /\ UNCHANGED <<blocks, reachable_blocks, in_degree, graph, executed, saved, last>>

\* a variant that swallows the exception without an event
Yielded_silent(raised, block_id) ==
    IF raised THEN <<>> ELSE <<Event("progress", block_id)>>

\* lines 98-121: what the try statement yields
Yielded(raised, block_id) ==
    <<Event(IF raised THEN "error" ELSE "progress", block_id)>>

\* a variant that lets the exception leave the generator
Caught_none(raised) == ~raised

\* line 113: except Exception catches whatever execute() raised
Caught(raised) == TRUE

\* lines 97-121: execute, yield the progress or the error event
block_execute ==
    /\ pc = "exec"
    /\ obj[current].block_type # "DIALOGUE"
    /\ \E outcome \in ExecOutcomes(obj[current]) :
         /\ obj' = [obj EXCEPT ![current].outputs = outcome.outputs]
         /\ events' = events \o Yielded(outcome.raised, current)
         /\ pc' = IF Caught(outcome.raised) THEN "propagate" ELSE "aborted"
    /\ executed' = Append(executed, current)
    /\ UNCHANGED <<blocks, reachable_blocks, in_degree, graph, ready_queue, current,
                   saved, last>>

\* a variant that notifies the dependents inside the try statement
\* a variant that branches on the block's outputs: the dependents are
\* released only when some output is truthy
Dependents_when_truthy(g, block_id, raised) ==
    IF \E k \in DOMAIN obj[block_id].outputs : PyBool(obj[block_id].outputs[k])
    THEN g[block_id] ELSE <<>>

Dependents_on_success(g, block_id, raised) ==
    IF raised THEN <<>> ELSE g[block_id]

\* line 124, after the try statement: the dependents of the block, whether
\* it raised or not
Dependents(g, block_id, raised) == g[block_id]

\* lines 123-127
block_propagate ==
    /\ pc = "propagate"
    /\ LET raised == events # <<>> /\ events[Len(events)].type = "error"
           r == Propagate(Dependents(graph, current, raised), in_degree, ready_queue)
       IN  /\ in_degree' = r.in_degree
           /\ ready_queue' = r.ready_queue
    /\ pc' = "ready"
    /\ UNCHANGED <<blocks, obj, reachable_blocks, graph, current, events, executed,
                   saved, last>>

(***************************************************************************)
(* DialogueBlock.execute (block_types/dialogue_block.py:18-27), called at  *)
(* line 99 of execute_graph, one step per read or write of user_response,  *)
(* and execution_respond (main.py:332-347), which runs on another request  *)
(* thread while the generator polls.                                       *)
(***************************************************************************)
\* line 19
dialogue_reset ==
    /\ pc = "exec"
    /\ obj[current].block_type = "DIALOGUE"
    /\ obj' = [obj EXCEPT ![current].user_response = NoneVal]
    /\ pc' = "waiting"
    /\ UNCHANGED <<blocks, reachable_blocks, in_degree, graph, ready_queue, current,
                   events, executed, saved, last>>

\* line 24: the loop is left when user_response is not None
Responded(b) == b.user_response # NoneVal

\* lines 24-25
dialogue_poll ==
    /\ pc = "waiting"
    /\ Responded(obj[current])
    /\ pc' = "resumed"
    /\ UNCHANGED <<blocks, obj, reachable_blocks, in_degree, graph, ready_queue, current,
                   events, executed, saved, last>>

\* line 27, and the progress event of lines 103-111
dialogue_read ==
    /\ pc = "resumed"
    /\ obj' = [obj EXCEPT ![current].outputs =
                  DictSet(@, "response", obj[current].user_response)]
    /\ events' = events \o Yielded(FALSE, current)
    /\ executed' = Append(executed, current)
    /\ pc' = "propagate"
    /\ UNCHANGED <<blocks, reachable_blocks, in_degree, graph, ready_queue, current,
                   saved, last>>

\* execution_respond (main.py:332-347)
execution_respond(block_id, value, track) ==
    /\ IF obj[block_id].block_type = "DIALOGUE"
       THEN /\ obj' = [obj EXCEPT ![block_id].user_response = value]
            /\ last' = Status(track, "received")
       ELSE /\ UNCHANGED obj
            /\ last' = Status(track, "not_found")
    /\ UNCHANGED <<blocks, runVars, saved>>

\* line 129
run_complete ==
    /\ pc = "ready"
    /\ ready_queue = <<>>
    /\ events' = Append(events, Event("complete", 0))
    /\ pc' = "done"
    /\ UNCHANGED <<blocks, obj, reachable_blocks, in_degree, graph, ready_queue,
                   current, executed, saved, last>>

(***************************************************************************)
(* The handlers of main.py that edit the project.  A request names its     *)
(* ports by arbitrary strings: the ports of the block and one string that  *)
(* is no port stand for them.  Where runs are explored as well, requests   *)
(* name the first output of the source block only.                         *)
(***************************************************************************)
NoKey == "nokey"
OutputChoices(b, all_outputs) ==
    {NoKey} \cup (IF all_outputs \/ b.out_order = <<>>
                  THEN DOMAIN b.outputs
                  ELSE {Head(b.out_order)})
InputChoices(b) == (DOMAIN b.inputs) \cup {NoKey}

NumConnectors(o) ==
    LET RECURSIVE Sum(_)
        Sum(S) == IF S = {} THEN 0
                  ELSE LET b == CHOOSE x \in S : TRUE
                       IN  Len(Outgoing(o[b])) + Sum(S \ {b})
    IN  Sum(DOMAIN o)

\* Project.add_block (project.py:28-30)
PutBlock(o, id, block) ==
    [i \in (DOMAIN o) \cup {id} |-> IF i = id THEN block ELSE o[i]]

add_block(choices, max_blocks, track) ==
    /\ Idle
    /\ Cardinality(DOMAIN obj) < max_blocks
    /\ \E new_block \in choices :
         LET id == FreshId(obj)
         IN  /\ obj' = PutBlock(obj, id, new_block)
             /\ blocks' = blocks \cup {id}
    /\ last' = Status(track, "added")
    /\ UNCHANGED <<runVars, saved>>

remove_block_handler(track) ==
    /\ Idle
    /\ \E block_id \in blocks :
         /\ obj' = Collect(remove_block(obj, block_id), blocks \ {block_id})
         /\ blocks' = blocks \ {block_id}
    /\ last' = Status(track, "removed")
    /\ UNCHANGED <<runVars, saved>>

\* add_connection (main.py:399-426) for one request
add_connection_request(source_id, source_output, target_id, target_input, max_connectors, track) ==
    /\ Idle
    /\ IF ~ConnectOk(obj, source_id, source_output, target_id, target_input)
       THEN /\ last' = Status(track, "port_not_found")
            /\ UNCHANGED obj
       ELSE /\ NumConnectors(obj) < max_connectors
            /\ obj' = connect(obj, source_id, source_output, target_id, target_input)
            /\ last' = Status(track, "connected")
    /\ UNCHANGED <<blocks, runVars, saved>>

add_connection(max_connectors, track) ==
    \E source_id \in blocks, target_id \in blocks :
    \E source_output \in OutputChoices(obj[source_id], track),
       target_input \in InputChoices(obj[target_id]) :
        add_connection_request(source_id, source_output, target_id, target_input,
                               max_connectors, track)

remove_connection(track) ==
    /\ Idle
    /\ \E source_id \in blocks, target_id \in blocks :
       \E source_output \in OutputChoices(obj[source_id], track),
          target_input \in InputChoices(obj[target_id]) :
         IF ToRemove(obj, source_id, source_output, target_id, target_input) = <<>>
         THEN /\ last' = Status(track, "connection_not_found")
              /\ UNCHANGED obj
         ELSE /\ obj' = Collect(
                    disconnect(obj, source_id, source_output, target_id, target_input),
                    blocks)
              /\ last' = Status(track, "disconnected")
    /\ UNCHANGED <<blocks, runVars, saved>>

\* Project.create_block (project.py:264-301)
create_block(choices, max_blocks) ==
    /\ Idle
    /\ Cardinality(DOMAIN obj) < max_blocks
    /\ \E new_block \in choices :
         LET id == FreshId(obj)
         IN  /\ obj' = PutBlock(obj, id, new_block)
             /\ blocks' = blocks \cup {id}
    /\ last' = "-"
    /\ UNCHANGED <<runVars, saved>>

(***************************************************************************)
(* update_block_input_value (main.py:374-397).                             *)
(***************************************************************************)
update_block_input_value_request(block_id, input_key, value) ==
    /\ Idle
    /\ IF input_key \notin DOMAIN obj[block_id].inputs
       THEN UNCHANGED obj
       ELSE obj' = [obj EXCEPT ![block_id].inputs[input_key] = value]
    /\ last' = "-"
    /\ UNCHANGED <<blocks, runVars, saved>>

update_block_input_value(values) ==
    \E block_id \in blocks, value \in values :
    \E input_key \in InputChoices(obj[block_id]) :
        update_block_input_value_request(block_id, input_key, value)

\* update_block_output_value (main.py:349-372)
update_block_output_value_request(block_id, output_key, value) ==
    /\ Idle
    /\ IF output_key \notin DOMAIN obj[block_id].outputs
       THEN UNCHANGED obj
       ELSE obj' = [obj EXCEPT ![block_id].outputs[output_key] = value]
    /\ last' = "-"
    /\ UNCHANGED <<blocks, runVars, saved>>

\* update_block (main.py:278-330) sent a schema_key: apply_schema is called
\* outside any try, so what it raises leaves the block as far as it got and
\* the request is answered 500
update_block_request(block_id, schema_key, track) ==
    /\ Idle
    /\ IF obj[block_id].block_type = "API"
       THEN LET applied == apply_schema_result(obj[block_id], schema_key)
            IN  /\ obj' = [obj EXCEPT ![block_id] = applied.block]
                /\ last' = Status(track, IF applied.raised THEN "server_error" ELSE "updated")
       ELSE /\ UNCHANGED obj
            /\ last' = Status(track, "updated")
    /\ UNCHANGED <<blocks, runVars, saved>>

update_block(schema_keys, track) ==
    \E block_id \in blocks, schema_key \in schema_keys :
        update_block_request(block_id, schema_key, track)

\* Block.toggle_input_visibility, toggle_output_visibility (blocks.py:67-81)
toggle_input_visibility(b, key) ==
    IF key \notin DOMAIN b.inputs THEN b
    ELSE [b EXCEPT !.hidden_inputs = IF key \in @ THEN @ \ {key} ELSE @ \cup {key}]

toggle_output_visibility(b, key) ==
    IF key \notin DOMAIN b.outputs THEN b
    ELSE [b EXCEPT !.hidden_outputs = IF key \in @ THEN @ \ {key} ELSE @ \cup {key}]

\* toggle_visibility (main.py:171-193)
toggle_visibility_request(block_id, key, io_type) ==
    /\ Idle
    /\ obj' = [obj EXCEPT ![block_id] =
                  IF io_type = "input" THEN toggle_input_visibility(@, key)
                  ELSE IF io_type = "output" THEN toggle_output_visibility(@, key)
                  ELSE @]
    /\ last' = "-"
    /\ UNCHANGED <<blocks, runVars, saved>>

\* update_block (main.py:278-330) sent a template (lines 323-325)
update_block_template_request(block_id, template) ==
    /\ Idle
    /\ IF obj[block_id].block_type = "STRING_BUILDER"
       THEN obj' = [obj EXCEPT ![block_id] = set_template(@, template)]
       ELSE UNCHANGED obj
    /\ last' = "-"
    /\ UNCHANGED <<blocks, runVars, saved>>

\* update_block (main.py:278-330) sent a transformation_type (lines 318-320)
update_block_transformation_type_request(block_id, transformation_type) ==
    /\ Idle
    /\ IF obj[block_id].block_type = "TRANSFORM"
       THEN obj' = [obj EXCEPT ![block_id] = set_transformation_type(@, transformation_type)]
       ELSE UNCHANGED obj
    /\ last' = "-"
    /\ UNCHANGED <<blocks, runVars, saved>>

(***************************************************************************)
(* Serialisation: Block.to_dict (blocks.py:114-129), Project.to_json and   *)
(* Project.from_json (project.py:53-185).  A document is what json.loads   *)
(* makes of the text json.dumps wrote: a mapping stays a mapping, a list   *)
(* or a set becomes a list.  The name, the position and menu_open of a     *)
(* block are not part of the modelled state.                               *)
(***************************************************************************)
JsonObject(d) == [kind |-> "object", members |-> d]

GetOr(d, k, default) == IF k \in DOMAIN d THEN d[k] ELSE default

\* blocks.py:114-129
to_dict(b, id) ==
    [id |-> id,
     block_type |-> b.block_type,
     inputs |-> JsonObject(b.inputs),
     hidden_inputs |-> b.hidden_inputs,
     hidden_outputs |-> b.hidden_outputs]

\* project.py:62-82: the fields added for the subclasses
BlockData(b, id) ==
    to_dict(b, id) @@
    (CASE b.block_type = "API" ->
              [url |-> b.url, method |-> b.method, schema_key |-> b.schema_key]
       [] b.block_type = "LOGIC" -> [operation |-> b.operation]
       [] b.block_type = "WAIT" -> [delay |-> b.delay]
       [] OTHER -> <<>>)

\* project.py:85-95
ConnectionData(connector) ==
    [source_id |-> connector.source_block,
     source_output |-> connector.source_output_key,
     target_id |-> connector.target_block,
     target_input |-> connector.target_input_key]

RECURSIVE Connections(_, _)
Connections(o, order) ==
    IF order = <<>> THEN <<>>
    ELSE LET out == Outgoing(o[Head(order)])
         IN  [i \in 1..Len(out) |-> ConnectionData(out[i])]
             \o Connections(o, Tail(order))

\* project.py:53-97; order is the order of the project's dict
to_json(o, order) ==
    [blocks |-> [i \in 1..Len(order) |-> BlockData(o[order[i]], order[i])],
     connections |-> Connections(o, order)]

\* project.py:110-148: the block of a document entry, or None.  The REACT,
\* TRANSFORM and STRING_BUILDER branches are taken by no project here.
Recreate(block_data) ==
    LET b_type == GetOr(block_data, "block_type", GetOr(block_data, "type", ""))
        Some(block) == [made |-> TRUE, block |-> block]
    IN  CASE b_type = "API" ->
               LET schema_key == GetOr(block_data, "schema_key", "custom")
                   block == APIBlock(schema_key)
               IN  Some(IF schema_key = "custom"
                        THEN [block EXCEPT !.url = GetOr(block_data, "url", ""),
                                           !.method = GetOr(block_data, "method", "GET")]
                        ELSE block)
          [] b_type = "LOGIC" -> Some(LogicBlock(GetOr(block_data, "operation", "add")))
          [] b_type = "START" -> Some(StartBlock)
          [] b_type = "WAIT" -> Some(WaitBlock(GetOr(block_data, "delay", FloatVal(1))))
          [] b_type = "DIALOGUE" -> Some(DialogueBlock(""))
          [] b_type = "API_KEY" -> Some(ApiKeyBlock)
          [] OTHER -> [made |-> FALSE, block |-> Block(b_type)]

RECURSIVE RestoreItems(_, _)
RestoreItems(block, items) ==
    IF items = <<>> THEN block
    ELSE LET key == GetOr(Head(items), "key", "")
             value == GetOr(Head(items), "value", NoneVal)
         IN  RestoreItems(
                 IF key # "" /\ key \in DOMAIN block.inputs
                 THEN [block EXCEPT !.inputs[key] = value]
                 ELSE block,
                 Tail(items))

\* project.py:160-166: the loop iterates the "inputs" entry; iterating a
\* mapping yields its keys, and a key is a str, which has no get()
RestoreInputs(block, inputs) ==
    IF inputs.kind = "object"
    THEN [raised |-> DOMAIN inputs.members # {}, block |-> block]
    ELSE [raised |-> FALSE, block |-> RestoreItems(block, inputs.items)]

\* project.py:106-169
RECURSIVE RecreateBlocks(_, _)
RecreateBlocks(blocks_data, project) ==
    IF blocks_data = <<>> \/ project.raised THEN project
    ELSE LET block_data == Head(blocks_data)
             new == Recreate(block_data)
             shown == [new.block EXCEPT
                          !.hidden_inputs = block_data.hidden_inputs,
                          !.hidden_outputs = block_data.hidden_outputs]
             restored == RestoreInputs(shown, block_data.inputs)
         IN  IF ~new.made THEN RecreateBlocks(Tail(blocks_data), project)
             ELSE IF restored.raised THEN [project EXCEPT !.raised = TRUE]
             ELSE RecreateBlocks(Tail(blocks_data),
                     [raised |-> FALSE,
                      obj |-> PutBlock(project.obj, block_data.id, restored.block)])

\* project.py:171-183
RECURSIVE RecreateConnections(_, _)
RecreateConnections(connections, project) ==
    IF connections = <<>> \/ project.raised THEN project
    ELSE LET conn_data == Head(connections)
             o == project.obj
         IN  IF conn_data.source_id \notin DOMAIN o \/ conn_data.target_id \notin DOMAIN o
             THEN RecreateConnections(Tail(connections), project)
             ELSE IF ~ConnectOk(o, conn_data.source_id, conn_data.source_output,
                                conn_data.target_id, conn_data.target_input)
             THEN [project EXCEPT !.raised = TRUE]
             ELSE RecreateConnections(Tail(connections),
                     [raised |-> FALSE,
                      obj |-> connect(o, conn_data.source_id, conn_data.source_output,
                                      conn_data.target_id, conn_data.target_input)])

\* project.py:99-185
from_json(document) ==
    RecreateConnections(document.connections,
        RecreateBlocks(document.blocks,
            [raised |-> FALSE, obj |-> [i \in {} |-> StartBlock]]))

\* save_project (main.py:508-514)
save_project ==
    /\ Idle
    /\ \E order \in Orders(blocks) : saved' = <<to_json(obj, order)>>
    /\ last' = "-"
    /\ UNCHANGED <<blocks, obj, runVars>>

\* load_project (main.py:516-536), sent the document that was saved
load_project ==
    /\ Idle
    /\ saved # <<>>
    /\ LET project == from_json(saved[1])
       IN  IF project.raised
           THEN /\ last' = "load_error"
                /\ UNCHANGED <<blocks, obj>>
           ELSE /\ blocks' = DOMAIN project.obj
                /\ obj' = project.obj
                /\ last' = "loaded"
    /\ UNCHANGED <<runVars, saved>>

Init ==
    /\ blocks = {}
    /\ obj = [i \in {} |-> StartBlock]
    /\ pc = "idle"
    /\ reachable_blocks = {}
    /\ in_degree = [i \in {} |-> 0]
    /\ graph = [i \in {} |-> <<>>]
    /\ ready_queue = <<>>
    /\ current = 0
    /\ events = <<>>
    /\ executed = <<>>
    /\ saved = <<>>
    /\ last = "-"

(***************************************************************************)
(* Spec: a project is edited, then run once.                               *)
(***************************************************************************)
RunChoices ==
    {StartBlock, WaitBlock(FloatVal(1)), WaitBlock(StrVal("soon")),
     LogicBlock("add"), APIBlock("cat_fact")}

RunNext(max_blocks, max_connectors) ==
    \/ add_block(RunChoices, max_blocks, FALSE)
    \/ remove_block_handler(FALSE)
    \/ add_connection(max_connectors, FALSE)
    \/ remove_connection(FALSE)
    \/ run_graph(FALSE)
    \/ block_start
    \/ block_execute
    \/ block_propagate
    \/ run_complete

Next == RunNext(MaxRunBlocks, MaxRunConnectors)

Spec == Init /\ [][Next]_vars

\* the same with projects of two blocks and one connector
SmallNext == RunNext(MaxSmallBlocks, MaxSmallConnectors)

SmallSpec == Init /\ [][SmallNext]_vars

(***************************************************************************)
(* EditSpec: the editing handlers alone, with the status of each response. *)
(***************************************************************************)
EditChoices == {StartBlock, WaitBlock(FloatVal(1))}

EditSteps(max_blocks, max_connectors) ==
    \/ add_block(EditChoices, max_blocks, TRUE)
    \/ remove_block_handler(TRUE)
    \/ add_connection(max_connectors, TRUE)
    \/ remove_connection(TRUE)

EditNext == EditSteps(MaxBlocks, MaxConnectors)

EditSpec == Init /\ [][EditNext]_vars

\* the same with projects of two blocks and two connectors
SmallEditNext == EditSteps(MaxSmallEditBlocks, MaxSmallEditConnectors)

SmallEditSpec == Init /\ [][SmallEditNext]_vars

(***************************************************************************)
(* SchemaSpec: API blocks are wired, given values and reconfigured.        *)
(***************************************************************************)
SchemaChoices ==
    {WaitBlock(FloatVal(1))}
    \cup (IF Cardinality({b \in blocks : obj[b].block_type = "API"}) < MaxSchemaApiBlocks
          THEN {APIBlock("cat_fact")} ELSE {})
SchemaKeys == (DOMAIN API_SCHEMAS) \cup {"weather"}
SchemaValue == StrVal("v")

SchemaNext ==
    \/ add_block(SchemaChoices, MaxSchemaBlocks, FALSE)
    \/ \E source_id \in blocks, target_id \in blocks :
       \E source_output \in OutputChoices(obj[source_id], TRUE),
          target_input \in InputChoices(obj[target_id]) :
           add_connection_request(source_id, source_output, target_id, target_input,
                                  MaxSchemaConnectors, FALSE)
    \/ update_block(SchemaKeys, FALSE)
    \/ \E block_id \in blocks : update_block_input_value_request(block_id, "trigger", SchemaValue)
    \/ \E block_id \in blocks : update_block_output_value_request(block_id, "response_json", SchemaValue)

SchemaSpec == Init /\ [][SchemaNext]_vars

(***************************************************************************)
(* DivideSpec: Logic blocks are given operands, wired behind a Start block *)
(* and run.                                                                *)
(***************************************************************************)
DivideChoices == {StartBlock, LogicBlock("add"), LogicBlock("divide")}
DivideValues == {IntVal(0), IntVal(9)}

DivideNext ==
    \/ add_block(DivideChoices, MaxDivideBlocks, FALSE)
    \/ add_connection(MaxDivideConnectors, FALSE)
    \/ \E block_id \in blocks, value \in DivideValues :
           update_block_input_value_request(block_id, "val_b", value)
    \/ run_graph(FALSE)
    \/ block_start
    \/ block_execute
    \/ block_propagate
    \/ run_complete

DivideSpec == Init /\ [][DivideNext]_vars

(***************************************************************************)
(* GreetSpec: a Logic block and a String-Builder block are given operands, *)
(* wired behind a Start block and run.                                     *)
(***************************************************************************)
GreetTemplate == <<Placeholder("message_text"), Literal("!")>>
GreetChoices == {StartBlock, LogicBlock("add"), StringBuilderBlock(GreetTemplate)}
GreetOperands == [val_a |-> StrVal("Hello "), val_b |-> StrVal("World")]

GreetNext ==
    \/ add_block(GreetChoices, MaxGreetBlocks, FALSE)
    \/ add_connection(MaxGreetConnectors, FALSE)
    \/ \E block_id \in blocks, input_key \in DOMAIN GreetOperands :
           update_block_input_value_request(block_id, input_key, GreetOperands[input_key])
    \/ run_graph(FALSE)
    \/ block_start
    \/ block_execute
    \/ block_propagate
    \/ run_complete

GreetSpec == Init /\ [][GreetNext]_vars

(***************************************************************************)
(* RefSpec: String-Builder blocks are given texts, some of which refer to  *)
(* the output of another block, wired behind a Start block and run.        *)
(***************************************************************************)
RefTemplate == <<Placeholder("message_text")>>
RefChoices == {StartBlock, StringBuilderBlock(RefTemplate)}

\* the text "Say: {{<id>.result}}"
RefText(id) == "Say: {{" \o NatStr(id) \o ".result}}"
UnknownRefText == "{{Unknown.field}}"

RefValues == {StrVal("Hello"), StrVal(UnknownRefText)} \cup {StrVal(RefText(id)) : id \in blocks}

RefNext ==
    \/ add_block(RefChoices, MaxRefBlocks, FALSE)
    \/ add_connection(MaxRefConnectors, FALSE)
    \/ \E block_id \in blocks, value \in RefValues :
           update_block_input_value_request(block_id, "message_text", value)
    \/ run_graph(FALSE)
    \/ block_start
    \/ block_execute
    \/ block_propagate
    \/ run_complete

RefSpec == Init /\ [][RefNext]_vars

(***************************************************************************)
(* RejectSpec: a small project is built and run, with the status of the    *)
(* answer to the run request.                                              *)
(***************************************************************************)
RejectNext ==
    \/ add_block(EditChoices, MaxRejectBlocks, FALSE)
    \/ add_connection(MaxRejectConnectors, FALSE)
    \/ run_graph(TRUE)
    \/ block_start
    \/ block_execute
    \/ block_propagate
    \/ run_complete

RejectSpec == Init /\ [][RejectNext]_vars

(***************************************************************************)
(* OverwriteSpec: blocks are wired, several times into the same input, and *)
(* their outputs are given values.                                         *)
(***************************************************************************)
OverwriteValue == StrVal("v")

OverwriteNext ==
    \/ add_block(EditChoices, MaxOverwriteBlocks, FALSE)
    \/ add_connection(MaxOverwriteConnectors, FALSE)
    \/ \E block_id \in blocks :
       \E output_key \in OutputChoices(obj[block_id], TRUE) :
           update_block_output_value_request(block_id, output_key, OverwriteValue)

OverwriteSpec == Init /\ [][OverwriteNext]_vars

(***************************************************************************)
(* LogicSpec: LogicBlock.execute applied to a Logic block of any operation *)
(* holding any pair of operands.                                           *)
(***************************************************************************)
LogicOperations ==
    {"add", "subtract", "multiply", "divide", "equals", "not_equals",
     "greater_than", "less_than", "and", "or", "xor"}

LogicValues ==
    {NoneVal, BoolVal(TRUE), BoolVal(FALSE), IntVal(0), IntVal(2), FloatVal(10),
     StrVal(""), StrVal("10"), StrVal("abc"), ObjVal("{}")}

LogicInit ==
    /\ blocks = {1}
    /\ \E operation \in LogicOperations, val_a \in LogicValues, val_b \in LogicValues :
         obj = <<[LogicBlock(operation) EXCEPT
                    !.inputs = [val_a |-> val_a, val_b |-> val_b]]>>
    /\ pc = "idle"
    /\ reachable_blocks = {}
    /\ in_degree = [i \in {} |-> 0]
    /\ graph = [i \in {} |-> <<>>]
    /\ ready_queue = <<>>
    /\ current = 0
    /\ events = <<>>
    /\ executed = <<>>
    /\ saved = <<>>
    /\ last = "-"

\* block.execute() on the block, outside any run
logic_execute ==
    /\ executed = <<>>
    /\ \E outcome \in LogicExecute(obj[1]) :
         obj' = [obj EXCEPT ![1].outputs = outcome.outputs]
    /\ executed' = <<1>>
    /\ UNCHANGED <<blocks, pc, reachable_blocks, in_degree, graph, ready_queue, current,
                   events, saved, last>>

LogicSpec == LogicInit /\ [][logic_execute]_vars

(***************************************************************************)
(* DialogueSpec: Dialogue blocks are wired behind a Start block and run,   *)
(* while responses arrive at any moment.                                   *)
(***************************************************************************)
DialogueChoices == {StartBlock, DialogueBlock("hi")}
DialogueValues == {StrVal("yes"), NoneVal}

\* the blocks whose start event the client has been sent and whose progress
\* event it has not: the client answers a dialogue it was shown
Prompted ==
    {b \in blocks :
        /\ \E i \in DOMAIN events : events[i] = Event("start", b)
        /\ \A i \in DOMAIN events : events[i].block_id = b => events[i].type = "start"}

DialogueNext ==
    \/ add_block(DialogueChoices, MaxDialogueBlocks, FALSE)
    \/ add_connection(MaxDialogueConnectors, FALSE)
    \/ \E block_id \in Prompted, value \in DialogueValues :
           execution_respond(block_id, value, FALSE)
    \/ run_graph(FALSE)
    \/ block_start
    \/ block_execute
    \/ dialogue_reset
    \/ dialogue_poll
    \/ dialogue_read
    \/ block_propagate
    \/ run_complete

DialogueSpec == Init /\ [][DialogueNext]_vars

\* the same with a client that answers once, with a value, and a generator
\* that is consumed to its end: the polling thread is scheduled again and
\* again, a response is not
AnswerValue == StrVal("yes")

AnswerNext ==
    \/ add_block(DialogueChoices, MaxDialogueBlocks, FALSE)
    \/ add_connection(MaxDialogueConnectors, FALSE)
    \/ \E block_id \in Prompted :
           /\ last # "received"
           /\ execution_respond(block_id, AnswerValue, TRUE)
    \/ run_graph(FALSE)
    \/ block_start
    \/ block_execute
    \/ dialogue_reset
    \/ dialogue_poll
    \/ dialogue_read
    \/ block_propagate
    \/ run_complete

DialogueStep ==
    \/ block_start
    \/ block_execute
    \/ dialogue_reset
    \/ dialogue_poll
    \/ dialogue_read
    \/ block_propagate
    \/ run_complete

AnswerSpec == Init /\ [][AnswerNext]_vars /\ WF_vars(DialogueStep)

(***************************************************************************)
(* TransformSpec: Transform blocks are wired behind a Start block, given   *)
(* another transformation type and run.                                    *)
(***************************************************************************)
TransformChoices == {StartBlock, TransformBlock("to_string", <<>>)}
TransformTypes == {"to_string", "to_json", "passthrough"}

TransformNext ==
    \/ add_block(TransformChoices, MaxTransformBlocks, FALSE)
    \/ add_connection(MaxTransformConnectors, FALSE)
    \/ \E block_id \in blocks, transformation_type \in TransformTypes :
           update_block_transformation_type_request(block_id, transformation_type)
    \/ run_graph(FALSE)
    \/ block_start
    \/ block_execute
    \/ block_propagate
    \/ run_complete

TransformSpec == Init /\ [][TransformNext]_vars

(***************************************************************************)
(* TemplateSpec: String-Builder blocks are wired, their inputs are given   *)
(* values and their templates are assigned.                                *)
(***************************************************************************)
TemplateChoices == {StartBlock, StringBuilderBlock(<<Literal("Hello")>>)}
Templates ==
    {<<Literal("Hello "), Placeholder("name")>>,
     <<Placeholder("trigger"), Literal("!")>>,
     <<Placeholder("message_text")>>}
TemplateValue == StrVal("v")

TemplateNext ==
    \/ add_block(TemplateChoices, MaxTemplateBlocks, FALSE)
    \/ add_connection(MaxTemplateConnectors, FALSE)
    \/ \E block_id \in blocks :
       \E input_key \in InputChoices(obj[block_id]) :
           update_block_input_value_request(block_id, input_key, TemplateValue)
    \/ \E block_id \in blocks, template \in Templates :
           update_block_template_request(block_id, template)

TemplateSpec == Init /\ [][TemplateNext]_vars

(***************************************************************************)
(* ReactSpec: React blocks are wired, their ports are given values and     *)
(* their port lists are replaced.  No route calls update_ports: the step   *)
(* is the method called on a block of the project.                         *)
(***************************************************************************)
ReactChoices == {StartBlock, ReactBlock}
InputLists == {<<>>, <<"data_in">>, <<"data_in", "extra">>}
OutputLists == {<<"data_out">>, <<"more", "data_out">>}
ReactValue == StrVal("v")

update_ports_call(block_id, inputs_list, outputs_list) ==
    /\ Idle
    /\ obj[block_id].block_type = "REACT"
    /\ obj' = [obj EXCEPT ![block_id] = update_ports(@, inputs_list, outputs_list)]
    /\ last' = "-"
    /\ UNCHANGED <<blocks, runVars, saved>>

ReactNext ==
    \/ add_block(ReactChoices, MaxReactBlocks, FALSE)
    \/ add_connection(MaxReactConnectors, FALSE)
    \/ \E block_id \in blocks :
       \E input_key \in InputChoices(obj[block_id]) :
           update_block_input_value_request(block_id, input_key, ReactValue)
    \/ \E block_id \in blocks :
       \E output_key \in OutputChoices(obj[block_id], TRUE) :
           update_block_output_value_request(block_id, output_key, ReactValue)
    \/ \E block_id \in blocks, inputs_list \in InputLists, outputs_list \in OutputLists :
           update_ports_call(block_id, inputs_list, outputs_list)

ReactSpec == Init /\ [][ReactNext]_vars

(***************************************************************************)
(* NestedSpec: an API block holds a decoded response, and the schema it is *)
(* under gives the output mapped the path NestedPaths[schema_key]; the     *)
(* mapping of lines 175-179 is applied to it.                              *)
(***************************************************************************)
NestedData ==
    {DictVal([output |-> ListVal(<<DictVal([text |-> StrVal("hi")])>>),
              n |-> IntVal(0),
              none |-> NoneVal]),
     DictVal([output |-> ListVal(<<>>)]),
     ListVal(<<StrVal("a"), StrVal("b")>>),
     ListVal(<<ListVal(<<BoolVal(FALSE)>>)>>),
     StrVal("s"),
     NoneVal}

NestedPaths ==
    [k \in {"p01", "p02", "p03", "p04", "p05", "p06", "p07", "p08", "p09", "p10",
            "p11", "p12", "p13", "p14"} |->
        CASE k = "p01" -> <<"output", "0", "text">>
          [] k = "p02" -> <<"output", "1">>
          [] k = "p03" -> <<"output", "x">>
          [] k = "p04" -> <<"n">>
          [] k = "p05" -> <<"n", "k">>
          [] k = "p06" -> <<"none", "k">>
          [] k = "p07" -> <<"missing">>
          [] k = "p08" -> <<"0">>
          [] k = "p09" -> <<"1">>
          [] k = "p10" -> <<"5">>
          [] k = "p11" -> <<"-1">>
          [] k = "p12" -> <<"-3">>
          [] k = "p13" -> <<"0", "0">>
          [] k = "p14" -> <<"output", "-1", "text">>]

NestedInit ==
    /\ blocks = {1}
    /\ \E data \in NestedData, k \in DOMAIN NestedPaths :
         obj = <<[register_output(APIBlock("custom"), "mapped", FALSE) EXCEPT
                    !.schema_key = k,
                    !.outputs["response_json"] = data]>>
    /\ pc = "idle"
    /\ reachable_blocks = {}
    /\ in_degree = [i \in {} |-> 0]
    /\ graph = [i \in {} |-> <<>>]
    /\ ready_queue = <<>>
    /\ current = 0
    /\ events = <<>>
    /\ executed = <<>>
    /\ saved = <<>>
    /\ last = "-"

\* self.outputs[key] = _get_nested_value(response_data, path)
map_output ==
    /\ executed = <<>>
    /\ obj' = [obj EXCEPT ![1].outputs["mapped"] =
                  _get_nested_value(obj[1].outputs["response_json"],
                                    NestedPaths[obj[1].schema_key])]
    /\ executed' = <<1>>
    /\ UNCHANGED <<blocks, pc, reachable_blocks, in_degree, graph, ready_queue, current,
                   events, saved, last>>

NestedSpec == NestedInit /\ [][map_output]_vars

(***************************************************************************)
(* PortsSpec: an API block under the custom schema and Wait blocks are     *)
(* wired, the visibility of ports is toggled, the schema is changed, and   *)
(* connections and blocks are removed.                                     *)
(***************************************************************************)
PortsChoices ==
    {WaitBlock(FloatVal(1))}
    \cup (IF Cardinality({b \in blocks : obj[b].block_type = "API"}) < MaxPortsApiBlocks
          THEN {APIBlock("custom")} ELSE {})
PortsKeys == {"custom", "cat_fact"}
ToggledInputs == {"url"}
ToggledOutputs == {"fact"}

PortsNext ==
    \/ add_block(PortsChoices, MaxPortsBlocks, FALSE)
    \/ add_connection(MaxPortsConnectors, FALSE)
    \/ remove_connection(FALSE)
    \/ remove_block_handler(FALSE)
    \/ update_block(PortsKeys, FALSE)
    \/ \E block_id \in blocks, key \in ToggledInputs :
           toggle_visibility_request(block_id, key, "input")
    \/ \E block_id \in blocks, key \in ToggledOutputs :
           toggle_visibility_request(block_id, key, "output")

PortsSpec == Init /\ [][PortsNext]_vars

(***************************************************************************)
(* SaveSpec: a project of every block type is built, saved and loaded.     *)
(***************************************************************************)
SaveAddChoices == {StartBlock, LoopBlock}

SaveCreateChoices == {ApiKeyBlock}

SaveValues == {StrVal("v")}

SaveNext ==
    \/ add_block(SaveAddChoices, MaxSaveBlocks, FALSE)
    \/ create_block(SaveCreateChoices, MaxSaveBlocks)
    \/ add_connection(MaxSaveConnectors, FALSE)
    \/ update_block_input_value(SaveValues)
    \/ save_project
    \/ load_project

SaveSpec == Init /\ [][SaveNext]_vars

(***************************************************************************)
(* CycleSpec: Start and Wait blocks are wired, in cycles too, and run; the *)
(* generator is consumed to its end.                                       *)
(***************************************************************************)
CycleNext ==
    \/ add_block(EditChoices, MaxCycleBlocks, FALSE)
    \/ add_connection(MaxCycleConnectors, FALSE)
    \/ run_graph(FALSE)
    \/ block_start
    \/ block_execute
    \/ block_propagate
    \/ run_complete

CycleSpec ==
    /\ Init
    /\ [][CycleNext]_vars
    /\ WF_vars(block_start \/ block_execute \/ block_propagate \/ run_complete)

\* the generator is consumed to its end by the streaming response, and
\* every execute() call returns or raises
RunStep == block_start \/ block_execute \/ block_propagate \/ run_complete

FairSpec == Spec /\ WF_vars(RunStep)

SmallFairSpec == SmallSpec /\ WF_vars(RunStep)

(***************************************************************************)
(* Vocabulary of the properties, defined on the project and on the stream  *)
(* alone                                                                   *)
(***************************************************************************)

\* the blocks a block's outgoing connectors lead to
Successors(b) == {Outgoing(obj[b])[i].target_block : i \in DOMAIN Outgoing(obj[b])}

RECURSIVE PathClosure(_)
PathClosure(S) ==
    LET more == S \cup UNION {Successors(b) : b \in S \cap DOMAIN obj}
    IN  IF more = S THEN S ELSE PathClosure(more)

IsStart(b) == obj[b].block_type = "START"

\* the blocks on a path of outgoing connectors from a Start block
PathReachable == PathClosure({b \in blocks : IsStart(b)})

\* the predecessors of a block inside the reachable subgraph
Predecessors(b) == {p \in PathReachable \cap DOMAIN obj : b \in Successors(p)}

Finished(i) == events[i].type \in {"progress", "error"}

FinishedBefore(p, i) ==
    \E j \in 1..(i - 1) : Finished(j) /\ events[j].block_id = p

StartedAt(b) == {i \in DOMAIN events : events[i] = Event("start", b)}

\* C1: a block starts only after every predecessor it has inside the
\* subgraph reachable from the Start blocks has finished, successfully or
\* with an error; blocks on a cycle therefore never start
C1_TopologicalOrder ==
    \A i \in DOMAIN events :
        events[i].type = "start" =>
            \A p \in Predecessors(events[i].block_id) : FinishedBefore(p, i)

\* a finished run in which a block with two distinct predecessors has started
C1_Witness ==
    /\ pc = "done"
    /\ \E i \in DOMAIN events :
         /\ events[i].type = "start"
         /\ Cardinality(Predecessors(events[i].block_id)) >= 2

Scenario_StartAndUnwiredAPI(s, a) ==
    /\ blocks = {s, a}
    /\ obj[s].block_type = "START"
    /\ obj[a].block_type = "API"
    /\ NumConnectors(obj) = 0

\* C2: no event of the stream names a block that is not on a path of
\* outgoing connectors from a Start block; with a Start block and an unwired
\* API block the whole stream is start, progress for the Start block and
\* then complete
C2_UnreachableNeverAppears ==
    /\ \A i \in DOMAIN events :
         events[i].type # "complete" => events[i].block_id \in PathReachable
    /\ \A s \in blocks, a \in blocks :
         (pc = "done" /\ Scenario_StartAndUnwiredAPI(s, a)) =>
             events = <<Event("start", s), Event("progress", s), Event("complete", 0)>>

\* the finished run of the Start block next to an unwired API block
C2_Witness ==
    /\ pc = "done"
    /\ \E s \in blocks, a \in blocks : Scenario_StartAndUnwiredAPI(s, a)

\* the inputs of c that are bound to a connector from b hold b's outputs
ReadsOutputsOf(c, b) ==
    \A k \in DOMAIN obj[c].input_connectors :
        LET ref == obj[c].input_connectors[k]
        IN  (ref # NoConnector /\ ref.source_block = b) =>
                obj[c].inputs[k] = Get(obj[b].outputs, ref.source_output_key)

ErrorAt(b) == {i \in DOMAIN events : events[i] = Event("error", b)}

\* C3: when block B raises, a block C whose only predecessor is B still
\* starts, after B's error event and with B's last outputs on the inputs B
\* feeds, and the stream of the run ends with the complete event
C3_PartialFailureContinues ==
    \A b \in blocks, c \in blocks :
        (b # c /\ ErrorAt(b) # {} /\ Predecessors(c) = {b}) =>
            /\ (pc = "exec" /\ current = c) => ReadsOutputsOf(c, b)
            /\ pc = "done" =>
                 /\ \E i \in ErrorAt(b), j \in StartedAt(c) : i < j
                 /\ events[Len(events)] = Event("complete", 0)

\* a finished run where a block raised and its only dependent ran after it
C3_Witness ==
    /\ pc = "done"
    /\ \E b \in blocks, c \in blocks :
         /\ b # c
         /\ ErrorAt(b) # {}
         /\ Predecessors(c) = {b}
         /\ StartedAt(c) # {}

CompleteAt == {i \in DOMAIN events : events[i].type = "complete"}

CompleteOnceAndLast ==
    /\ CompleteAt \subseteq {Len(events)}
    /\ (pc = "done") <=> (CompleteAt # {})
    /\ (pc # "idle" /\ ~ENABLED RunStep) => CompleteAt # {}

BlockEvents == SelectSeq(events, LAMBDA e : e.type # "complete")

\* C5: the events before complete are pairs of a start event and a progress
\* or error event for the same block, one pair per execution in execution
\* order, and complete comes after all of them
C5_EventPairs ==
    /\ \A i \in DOMAIN events :
         events[i].type = "complete" => i = Len(events)
    /\ \A i \in DOMAIN BlockEvents :
         IF i % 2 = 1
         THEN BlockEvents[i].type = "start"
         ELSE /\ BlockEvents[i].type \in {"progress", "error"}
              /\ BlockEvents[i].block_id = BlockEvents[i - 1].block_id
    /\ \A k \in DOMAIN executed :
         /\ 2 * k <= Len(BlockEvents)
         /\ BlockEvents[2 * k].block_id = executed[k]
    /\ pc \in {"idle", "ready", "done"} => Len(BlockEvents) = 2 * Len(executed)

\* a finished run of two executions, a progress pair and an error pair
C5_Witness ==
    /\ pc = "done"
    /\ Len(executed) = 2
    /\ \E i \in DOMAIN events : events[i].type = "error"
    /\ \E i \in DOMAIN events : events[i].type = "progress"

(***************************************************************************)
(* Connector ownership                                                     *)
(***************************************************************************)

\* the connectors a block holds, in its outgoing lists or as incoming
\* references
Held(b) ==
    SeqToSet(Outgoing(obj[b])) \cup (IncomingRefs(obj[b]) \ {NoConnector})

\* C6: after any sequence of add, connect (an occupied input included),
\* disconnect and remove operations, every connector held by a block of the
\* project has both its endpoints in the project
C6_NoDanglingConnector ==
    \A b \in blocks : \A c \in Held(b) :
        c.source_block \in blocks /\ c.target_block \in blocks

\* the outgoing connectors of a that lead to the block t
ConnectorsTo(o, a, t) ==
    {c \in SeqToSet(Outgoing(o[a])) : c.target_block = t}

\* C7: with A connected to B and to C, removing B leaves every connector
\* from A to C in A's outgoing list and leaves the incoming references of C
\* to those connectors as they were
C7_RemoveFrameCondition ==
    [][\A a \in blocks, b \in blocks, c \in blocks :
          ( /\ a # b /\ a # c /\ b # c
            /\ ConnectorsTo(obj, a, b) # {}
            /\ ConnectorsTo(obj, a, c) # {}
            /\ blocks' = blocks \ {b} ) =>
              /\ ConnectorsTo(obj', a, c) = ConnectorsTo(obj, a, c)
              /\ \A k \in DOMAIN obj[c].input_connectors :
                   obj[c].input_connectors[k] \in ConnectorsTo(obj, a, c) =>
                       obj'[c].input_connectors[k] = obj[c].input_connectors[k]
      ]_vars

\* C8: a connector is in the outgoing list of its source exactly when it
\* is the incoming reference of its target's input, so no input is the
\* target of two connectors
C8_JointOwnership ==
    /\ \A b \in blocks : \A c \in SeqToSet(Outgoing(obj[b])) :
         /\ c.target_block \in DOMAIN obj
         /\ c.target_input_key \in DOMAIN obj[c.target_block].input_connectors
         /\ obj[c.target_block].input_connectors[c.target_input_key] = c
    /\ \A b \in blocks : \A c \in IncomingRefs(obj[b]) \ {NoConnector} :
         /\ c.source_block \in DOMAIN obj
         /\ c \in SeqToSet(Outgoing(obj[c.source_block]))

\* a key that is not a port of the block on its side of the request
UnknownPort(source_id, source_output, target_id, target_input) ==
    \/ source_output \notin DOMAIN obj[source_id].outputs
    \/ target_input \notin DOMAIN obj[target_id].inputs

\* C9: a connect request that names a key which is not an output of the
\* source or not an input of the target is answered with an error, and it
\* creates no connector
C9_ConnectRejectsUnknownPort ==
    [][\A source_id \in blocks, target_id \in blocks :
       \A source_output \in OutputChoices(obj[source_id], TRUE),
          target_input \in InputChoices(obj[target_id]) :
          ( /\ UnknownPort(source_id, source_output, target_id, target_input)
            /\ add_connection_request(source_id, source_output, target_id,
                                      target_input, MaxSmallEditConnectors, TRUE) ) =>
              /\ last' = "port_not_found"
              /\ obj' = obj
      ]_vars

\* a rejected connect request between two blocks that already share a
\* connector
C9_Witness ==
    /\ last = "port_not_found"
    /\ NumConnectors(obj) >= 1
    /\ Cardinality(blocks) >= 2

(***************************************************************************)
(* Round trip                                                              *)
(***************************************************************************)

SameBlock(original, reloaded) ==
    /\ reloaded.block_type = original.block_type
    /\ DOMAIN reloaded.inputs = DOMAIN original.inputs
    /\ DOMAIN reloaded.outputs = DOMAIN original.outputs
    /\ reloaded.inputs = original.inputs

\* C10: loading the document a project was saved to yields a project that
\* has, for every block of the original, a block with the same id, the same
\* type, the same port keys and the same input values
C10_RoundTripBlocks ==
    \A order \in Orders(blocks) :
        LET reloaded == from_json(to_json(obj, order))
        IN  /\ ~reloaded.raised
            /\ \A b \in blocks :
                 /\ b \in DOMAIN reloaded.obj
                 /\ SameBlock(obj[b], reloaded.obj[b])

\* the (source id, source output, target id, target input) tuples held in the
\* outgoing lists of the blocks in S
ConnectorTuples(o, S) ==
    {<<c.source_block, c.source_output_key, c.target_block, c.target_input_key>> :
        c \in UNION {SeqToSet(Outgoing(o[b])) : b \in S \cap DOMAIN o}}

\* the source an input's incoming reference designates
SourceOf(o, b, k) ==
    IF b \in DOMAIN o /\ k \in DOMAIN o[b].input_connectors
       /\ o[b].input_connectors[k] # NoConnector
    THEN <<o[b].input_connectors[k].source_block, o[b].input_connectors[k].source_output_key>>
    ELSE <<0, "">>

\* C11: loading the document a project was saved to yields a project whose
\* outgoing lists hold the same set of (source id, source output, target id,
\* target input) tuples, and in which every input's incoming reference
\* designates the same source as before
C11_RoundTripConnectors ==
    \A order \in Orders(blocks) :
        LET reloaded == from_json(to_json(obj, order))
        IN  /\ ~reloaded.raised
            /\ ConnectorTuples(reloaded.obj, DOMAIN reloaded.obj) = ConnectorTuples(obj, blocks)
            /\ \A b \in blocks : \A k \in DOMAIN obj[b].inputs :
                 SourceOf(reloaded.obj, b, k) = SourceOf(obj, b, k)

IsAPI(b) == b \in blocks /\ obj[b].block_type = "API"

PortKeys(b) == <<DOMAIN b.inputs, DOMAIN b.outputs>>

CoreValues(b) ==
    <<[k \in core_inputs |-> Get(b.inputs, k)], [k \in core_outputs |-> Get(b.outputs, k)]>>

\* C12: for every API block of the project and every key of the catalog,
\* applying the schema twice leaves the same input and output keys and the
\* same values on trigger, response_json, status_code and error as applying
\* it once
C12_ApplySchemaIdempotent ==
    \A b \in blocks : IsAPI(b) =>
        \A k \in DOMAIN API_SCHEMAS :
            LET once == apply_schema(obj[b], k)
                twice == apply_schema(once, k)
            IN  /\ PortKeys(twice) = PortKeys(once)
                /\ CoreValues(twice) = CoreValues(once)

\* an API block that was reconfigured to another schema and holds values on
\* its core ports
C12_Witness ==
    \E b \in blocks :
        /\ IsAPI(b)
        /\ obj[b].schema_key = "agify"
        /\ obj[b].inputs["trigger"] = SchemaValue
        /\ obj[b].outputs["response_json"] = SchemaValue

\* every connector a block of the project holds, in a list or as a reference
HeldAnywhere(o) ==
    UNION {SeqToSet(Outgoing(o[b])) \cup IncomingRefs(o[b]) : b \in blocks \cap DOMAIN o}

\* the connectors attached to the ports of b that a step removes
DetachedByStep(b) ==
    {obj[b].input_connectors[k] :
        k \in (DOMAIN obj[b].input_connectors) \ (DOMAIN obj'[b].inputs)}
    \cup UNION {SeqToSet(obj[b].output_connectors[k]) :
        k \in (DOMAIN obj[b].output_connectors) \ (DOMAIN obj'[b].outputs)}

\* C13: when a reconfiguration removes a port of a block, no connector that
\* was attached to that port is held by any block afterwards, neither in an
\* outgoing list nor as an incoming reference
C13_RemovedPortDetachesBothEnds ==
    [][\A b \in blocks :
          \A c \in DetachedByStep(b) \ {NoConnector} : c \notin HeldAnywhere(obj')]_vars

CoreConnectors(b) ==
    <<[k \in core_inputs |-> b.input_connectors[k]],
      [k \in core_outputs |-> b.output_connectors[k]]>>

\* C14: reconfiguring an API block of the project to any schema of the
\* catalog leaves it with its trigger input and its response_json,
\* status_code and error outputs, and with the values and the connectors
\* these ports had
C14_CorePortsSurvive ==
    \A b \in blocks : IsAPI(b) =>
        \A k \in DOMAIN API_SCHEMAS :
            LET after == apply_schema(obj[b], k)
            IN  /\ core_inputs \subseteq DOMAIN after.inputs
                /\ core_outputs \subseteq DOMAIN after.outputs
                /\ CoreValues(after) = CoreValues(obj[b])
                /\ CoreConnectors(after) = CoreConnectors(obj[b])

\* C15: declaring again a port a block of the project already has leaves the
\* block with the same port keys, the same value on that port and the same
\* connectors attached to it
C15_RegisterIdempotent ==
    \A b \in blocks :
        /\ \A key \in DOMAIN obj[b].inputs :
             LET again == register_input(obj[b], key, NoneVal, key \in obj[b].hidden_inputs)
             IN  /\ PortKeys(again) = PortKeys(obj[b])
                 /\ again.inputs[key] = obj[b].inputs[key]
                 /\ again.input_connectors[key] = obj[b].input_connectors[key]
        /\ \A key \in DOMAIN obj[b].outputs :
             LET again == register_output(obj[b], key, key \in obj[b].hidden_outputs)
             IN  /\ PortKeys(again) = PortKeys(obj[b])
                 /\ again.outputs[key] = obj[b].outputs[key]
                 /\ again.output_connectors[key] = obj[b].output_connectors[key]

\* C16: applying to an API block of the project a schema key that the
\* catalog does not have raises nothing and leaves the block with the input
\* and output keys that applying "custom" leaves
C16_UnknownKeyFallsBack ==
    \A b \in blocks : IsAPI(b) =>
        \A k \in SchemaKeys \ DOMAIN API_SCHEMAS :
            LET applied == apply_schema_result(obj[b], k)
            IN  /\ ~applied.raised
                /\ PortKeys(applied.block) = PortKeys(apply_schema(obj[b], "custom"))

\* a Logic block that was executed as a division of 10 by 0
DividedTenByZero(b) ==
    /\ b \in SeqToSet(executed)
    /\ obj[b].block_type = "LOGIC"
    /\ obj[b].operation = "divide"
    /\ obj[b].inputs["val_a"] \in {IntVal(10), FloatVal(10)}
    /\ obj[b].inputs["val_b"] \in {IntVal(0), FloatVal(0)}

\* C17: a Logic block executed as the division of 10 by 0 gets an error
\* event and no progress event, and the run is not aborted by it
C17_DivideByZeroIsError ==
    \A b \in blocks : DividedTenByZero(b) =>
        /\ \E i \in 1..Len(events) : events[i] = Event("error", b)
        /\ \A i \in 1..Len(events) : events[i] # Event("progress", b)
        /\ pc # "aborted"

\* the graph Start -> Logic(add, "Hello ", "World") -> StringBuilder with the
\* template "{{message_text}}!": the project is these three blocks, Start's
\* signal is connected to an input of the Logic block and the Logic block's
\* result to message_text
ScenarioA(s, l, sb) ==
    /\ blocks = {s, l, sb}
    /\ obj[s].block_type = "START"
    /\ obj[l].block_type = "LOGIC" /\ obj[l].operation = "add"
    /\ obj[sb].block_type = "STRING_BUILDER" /\ obj[sb].template = GreetTemplate
    /\ \E k \in DOMAIN obj[l].inputs :
         ConnectorTuples(obj, {s}) = {<<s, "start_signal", l, k>>}
    /\ ConnectorTuples(obj, {l}) = {<<l, "result", sb, "message_text">>}
    /\ ConnectorTuples(obj, {sb}) = {}

\* C18: in a run of that graph the Logic block starts after the Start block
\* alone has executed, with the operands "Hello " and "World" it was given,
\* and what it then computes makes the String-Builder block's result
\* "Hello World!"
C18_ScenarioAResult ==
    [][\A s \in blocks, l \in blocks, sb \in blocks :
          (/\ ScenarioA(s, l, sb)
           /\ obj[l].inputs = GreetOperands
           /\ pc = "ready" /\ pc' = "exec" /\ current' = l)
          => /\ executed = <<s>>
             /\ \A ran \in LogicExecute(obj'[l]) :
                  LET message == [obj'[sb].inputs EXCEPT !["message_text"] = ran.outputs["result"]]
                  IN  \A built \in StringBuilderExecute([obj'[sb] EXCEPT !.inputs = message]) :
                          built.outputs["result"] = StrVal("Hello World!")]_vars

\* block x is taken from the ready queue by this step
Starts(x) == pc = "ready" /\ pc' = "exec" /\ current' = x

Unwired(b, k) == obj[b].input_connectors[k] = NoConnector

\* C19: when a block starts with an unwired input "Say: {{g.result}}" and g
\* has finished in this run with the result "Hello", the block executes with
\* the input "Say: Hello"; an input "{{Unknown.field}}" is executed as it is
C19_ReferencesResolved ==
    [][\A x \in blocks : Starts(x) =>
          \A k \in DOMAIN obj[x].inputs : Unwired(x, k) =>
             /\ \A g \in SeqToSet(executed) :
                  (/\ obj[x].inputs[k] = StrVal(RefText(g))
                   /\ Get(obj[g].outputs, "result") = StrVal("Hello"))
                  => obj'[x].inputs[k] = StrVal("Say: Hello")
             /\ obj[x].inputs[k] = StrVal(UnknownRefText)
                  => obj'[x].inputs[k] = StrVal(UnknownRefText)]_vars

NoStartBlock == \A b \in blocks : ~IsStart(b)

\* C20: while the project has no Start block, whatever run was requested, no
\* scheduling has begun, no block was executed and no event was emitted
C20_RunWithoutStartRejected ==
    NoStartBlock =>
        /\ pc = "idle"
        /\ executed = <<>>
        /\ events = <<>>
        /\ ready_queue = <<>>
        /\ reachable_blocks = {}

\* a run was requested of a project that has blocks but no Start block, and
\* was answered by the rejection
C20_Witness == blocks # {} /\ NoStartBlock /\ last = "no_start"

\* the blocks bound to an input of x through the input's incoming connector
BoundSources(x) == {c.source_block : c \in IncomingRefs(obj[x])}

\* C21: when the scheduler takes a block from the ready queue and fetches its
\* inputs, every block bound to one of its inputs has already executed in
\* this run
C21_SourcesExecutedBeforeFetch ==
    [][\A x \in blocks : Starts(x) => BoundSources(x) \subseteq SeqToSet(executed)]_vars

\* the connectors a step appends to the outgoing lists of b
NewConnectors(b) == SeqToSet(Outgoing(obj'[b])) \ SeqToSet(Outgoing(obj[b]))

Occupied(t, i) == obj[t].input_connectors[i] # NoConnector

\* C22: a connect into an input that already has an incoming connector is
\* accepted; after it the input's incoming reference is the new connector,
\* fetch_inputs on the target writes the new source's current output value
\* into the input, and the replaced connector is still in the outgoing list
\* of its source
C22_ConnectOverwrites ==
    /\ [](\A t \in blocks : \A i \in DOMAIN obj[t].inputs : Occupied(t, i) =>
            \A b \in blocks : \A p \in DOMAIN obj[b].outputs : ConnectOk(obj, b, p, t, i))
    /\ [][\A b \in blocks : \A d \in NewConnectors(b) :
            LET t == d.target_block
                i == d.target_input_key
                replaced == obj[t].input_connectors[i]
            IN  Occupied(t, i) =>
                  /\ obj'[t].input_connectors[i] = d
                  /\ fetch_inputs(obj', t)[t].inputs[i] = obj'[b].outputs[d.source_output_key]
                  /\ replaced \in SeqToSet(Outgoing(obj[replaced.source_block]))
                  /\ replaced \in SeqToSet(Outgoing(obj'[replaced.source_block]))]_vars

\* an input bound to a source that holds a value, while another connector
\* into the same input is still in the outgoing list of its source
C22_Witness ==
    \E t \in blocks, a \in blocks :
    \E i \in DOMAIN obj[t].inputs :
    \E c \in SeqToSet(Outgoing(obj[a])) :
        /\ Occupied(t, i)
        /\ c.target_block = t /\ c.target_input_key = i
        /\ c # obj[t].input_connectors[i]
        /\ SourceOf(obj, t, i)[1] # a
        /\ obj[SourceOf(obj, t, i)[1]].outputs[SourceOf(obj, t, i)[2]] = OverwriteValue
        /\ fetch_inputs(obj, t)[t].inputs[i] = OverwriteValue

\* C23: the fetch_inputs of a starting block leaves every input without a
\* connector with the value it had, and leaves the block's input keys, its
\* outputs, its connectors and every other block as they were
C23_FetchInputsFrame ==
    [][\A x \in blocks : Starts(x) =>
          /\ DOMAIN obj'[x].inputs = DOMAIN obj[x].inputs
          /\ \A k \in DOMAIN obj[x].inputs : Unwired(x, k) => obj'[x].inputs[k] = obj[x].inputs[k]
          /\ obj'[x].outputs = obj[x].outputs
          /\ obj'[x].input_connectors = obj[x].input_connectors
          /\ obj'[x].output_connectors = obj[x].output_connectors
          /\ DOMAIN obj' = DOMAIN obj
          /\ \A b \in (DOMAIN obj) \ {x} : obj'[b] = obj[b]]_vars

\* a Logic block has started with one operand fetched from its source and
\* the other, unconnected, still holding the value it was given
C23_Witness ==
    /\ pc = "exec"
    /\ obj[current].block_type = "LOGIC"
    /\ ~Unwired(current, "val_a")
    /\ obj[current].inputs["val_a"] = BoolVal(TRUE)
    /\ Unwired(current, "val_b")
    /\ obj[current].inputs["val_b"] = IntVal(9)

StartBlocks == {b \in blocks : IsStart(b)}

\* C24: no connect with a Start block as target is accepted and no connector
\* ends at a Start block; in a run every Start block of the project has
\* in-degree zero, is in the ready queue from the beginning until it is
\* taken from it, and has executed with start_signal true when the run is
\* complete
C24_StartBlocksSeedTheRun ==
    /\ \A s \in StartBlocks :
         /\ \A b \in blocks : \A p \in DOMAIN obj[b].outputs :
              \A i \in InputChoices(obj[s]) : ~ConnectOk(obj, b, p, s, i)
         /\ \A c \in HeldAnywhere(obj) : c.target_block # s
    /\ pc # "idle" =>
         \A s \in StartBlocks :
            /\ s \in DOMAIN in_degree /\ in_degree[s] = 0
            /\ s \in SeqToSet(ready_queue) \cup SeqToSet(executed) \cup {current}
            /\ s \in SeqToSet(executed) => obj[s].outputs["start_signal"] = BoolVal(TRUE)
    /\ pc = "done" => StartBlocks \subseteq SeqToSet(executed)

\* a run of a project with two Start blocks is complete
C24_Witness ==
    /\ pc = "done"
    /\ Cardinality(StartBlocks) = 2
    /\ \A s \in StartBlocks : obj[s].outputs["start_signal"] = BoolVal(TRUE)

\* what the connectors alone determine to run: a block on a path from a
\* Start block runs once all its predecessors on such paths have run
RECURSIVE Runnable(_)
Runnable(E) ==
    LET more == E \cup {b \in PathReachable \cap DOMAIN obj : Predecessors(b) \subseteq E}
    IN  IF more = E THEN E ELSE Runnable(more)

\* C25: the blocks a run executes are those the connectors determine,
\* whatever values the blocks hold or produce: during a run only such blocks
\* have executed, and when the run is complete all of them have
C25_ExecutedSetIsStructural ==
    /\ SeqToSet(executed) \subseteq Runnable({})
    /\ pc = "done" => SeqToSet(executed) = Runnable({})

\* a complete run in which a block that produced no truthy output was
\* followed by a block it feeds
C25_Witness ==
    /\ pc = "done"
    /\ \E b \in SeqToSet(executed) :
         /\ \A k \in DOMAIN obj[b].outputs : ~PyBool(obj[b].outputs[k])
         /\ (Successors(b) \ {b}) \cap SeqToSet(executed) # {}

\* C26: a Logic block that has executed has exactly one of if_true and
\* if_false true, and if_true is the truthiness of result
C26_LogicFlags ==
    \A b \in SeqToSet(executed) : obj[b].block_type = "LOGIC" =>
        /\ obj[b].outputs["if_true"] \in {BoolVal(TRUE), BoolVal(FALSE)}
        /\ obj[b].outputs["if_false"] \in {BoolVal(TRUE), BoolVal(FALSE)}
        /\ obj[b].outputs["if_true"] # obj[b].outputs["if_false"]
        /\ obj[b].outputs["if_true"] = BoolVal(PyBool(obj[b].outputs["result"]))

\* a division whose coercion failed, and an unknown operation, have executed
C26_Witness ==
    /\ executed = <<1>>
    /\ obj[1].operation \in {"divide", "xor"}
    /\ obj[1].inputs["val_a"] = StrVal("abc")
    /\ obj[1].outputs["result"] = NoneVal
    /\ obj[1].outputs["if_false"] = BoolVal(TRUE)

IsDialogue(b) == b \in DOMAIN obj /\ obj[b].block_type = "DIALOGUE"

\* the Dialogue block has started and has not finished
AwaitingResponse(d) ==
    /\ IsDialogue(d)
    /\ StartedAt(d) # {}
    /\ \A i \in DOMAIN events : events[i].block_id = d => events[i].type = "start"

\* C27: while a started Dialogue block has not finished, its start event is
\* the last event of the stream; it leaves the wait only on a response that
\* is there, its progress event is yielded together with that response on
\* the response output, and no step of the scheduler discards a response
\* supplied to a block that has started and not finished
C27_DialogueWaitsForResponse ==
    /\ [](\A d \in DOMAIN obj : AwaitingResponse(d) => events[Len(events)] = Event("start", d))
    /\ [][/\ (pc = "waiting" /\ pc' # "waiting") =>
                /\ pc' = "resumed"
                /\ obj[current].user_response # NoneVal
                /\ events' = events
          /\ \A d \in DOMAIN obj :
                (IsDialogue(d) /\ events' # events /\ events'[Len(events')] = Event("progress", d))
                => /\ pc = "resumed"
                   /\ obj'[d].outputs["response"] = obj[d].user_response
          /\ \A d \in DOMAIN obj :
                (AwaitingResponse(d) /\ obj[d].user_response # NoneVal /\ pc' # pc)
                => obj'[d].user_response = obj[d].user_response]_vars

\* C28: no step of a run changes the project's block map, the input or
\* output keys of a block, or a connector: the outgoing lists and the
\* incoming references of every block are after the step what they were
C28_RunKeepsStructure ==
    [][(pc # "idle" \/ pc' # "idle") =>
          /\ blocks' = blocks
          /\ DOMAIN obj' = DOMAIN obj
          /\ \A b \in DOMAIN obj :
                /\ PortKeys(obj'[b]) = PortKeys(obj[b])
                /\ obj'[b].input_connectors = obj[b].input_connectors
                /\ obj'[b].output_connectors = obj[b].output_connectors]_vars

IsStringBuilder(b) == obj[b].block_type = "STRING_BUILDER"

\* C29: the inputs of a String-Builder block are trigger, message_text and
\* the placeholders of the templates it was given: each assignment of a
\* template adds the placeholders of that template to the input keys and
\* nothing else, and an input that was there keeps its value and its
\* incoming connector
C29_TemplateOnlyAddsInputs ==
    \A b \in blocks : IsStringBuilder(b) =>
        /\ {"trigger", "message_text"} \cup Placeholders(obj[b].template) \subseteq DOMAIN obj[b].inputs
        /\ \A template \in Templates :
              LET assigned == set_template(obj[b], template)
              IN  /\ DOMAIN assigned.inputs = (DOMAIN obj[b].inputs) \cup Placeholders(template)
                  /\ \A key \in DOMAIN obj[b].inputs :
                        /\ assigned.inputs[key] = obj[b].inputs[key]
                        /\ assigned.input_connectors[key] = obj[b].input_connectors[key]

IsReact(b) == obj[b].block_type = "REACT"

\* C30: update_ports applied to a React block of the project with any lists
\* leaves it with the listed input keys and the listed output keys and no
\* others; a key it had and still has keeps its value and its connectors;
\* a key it had not has a null value and no connector
C30_UpdatePortsDiffsKeys ==
    \A b \in blocks : IsReact(b) =>
        \A inputs_list \in InputLists, outputs_list \in OutputLists :
            LET before == obj[b]
                after == update_ports(before, inputs_list, outputs_list)
            IN  /\ DOMAIN after.inputs = SeqToSet(inputs_list)
                /\ DOMAIN after.input_connectors = SeqToSet(inputs_list)
                /\ DOMAIN after.outputs = SeqToSet(outputs_list)
                /\ DOMAIN after.output_connectors = SeqToSet(outputs_list)
                /\ \A key \in DOMAIN after.inputs :
                      IF key \in DOMAIN before.inputs
                      THEN /\ after.inputs[key] = before.inputs[key]
                           /\ after.input_connectors[key] = before.input_connectors[key]
                      ELSE /\ after.inputs[key] = NoneVal
                           /\ after.input_connectors[key] = NoConnector
                /\ \A key \in DOMAIN after.outputs :
                      IF key \in DOMAIN before.outputs
                      THEN /\ after.outputs[key] = before.outputs[key]
                           /\ after.output_connectors[key] = before.output_connectors[key]
                      ELSE /\ after.outputs[key] = NoneVal
                           /\ after.output_connectors[key] = <<>>

\* a React block whose ports were replaced holds, beside the added ports
\* extra and more, a value and an incoming connector on data_in and an
\* outgoing connector on data_out, which the replacement has to keep
C30_Witness ==
    \E b \in blocks :
        /\ IsReact(b)
        /\ DOMAIN obj[b].inputs = {"data_in", "extra"}
        /\ DOMAIN obj[b].outputs = {"data_out", "more"}
        /\ obj[b].inputs["extra"] = NoneVal
        /\ obj[b].inputs["data_in"] = ReactValue
        /\ obj[b].input_connectors["data_in"] # NoConnector
        /\ obj[b].output_connectors["data_out"] # <<>>

\* the value a path leads to: a segment of a list is the integer it
\* writes, leading to the item at that position counted from 0, a segment
\* of a dict is a key; anything else is a miss, and a miss gives null
RECURSIVE Reached(_, _)
Reached(data, keys) ==
    IF keys = <<>> THEN data
    ELSE LET key == Head(keys)
             hit == IF data.t = "list"
                    THEN /\ key \in DOMAIN IntTexts
                         /\ IntTexts[key] >= 0
                         /\ IntTexts[key] < Len(data.items)
                    ELSE data.t = "dict" /\ key \in DOMAIN data.members
         IN  IF ~hit THEN NoneVal
             ELSE LET next == IF data.t = "list" THEN data.items[IntTexts[key] + 1]
                              ELSE data.members[key]
                  IN  IF next = NoneVal THEN NoneVal ELSE Reached(next, Tail(keys))

C32_ExecutedOnceCountersNonNegative ==
    /\ \A i, j \in DOMAIN executed : executed[i] = executed[j] => i = j
    /\ \A b \in DOMAIN in_degree : in_degree[b] >= 0

\* a run over two start blocks has ended in which a block fed by two
\* connectors from the same block has executed
C32_Witness ==
    /\ pc = "done"
    /\ Cardinality(StartNodes) = 2
    /\ \E a \in SeqToSet(executed), b \in SeqToSet(executed) :
         /\ a # b
         /\ CountIn(graph[a], b) = 2

\* C33: every block a run executes, and every block an event of the run
\* names, is a block of the project
C33_RunStaysInsideProject ==
    /\ SeqToSet(executed) \subseteq blocks
    /\ \A i \in DOMAIN events : events[i].type # "complete" => events[i].block_id \in blocks

\* the client's response to the prompt of the Dialogue block is stored
Answered(d) == AwaitingResponse(d) /\ obj[d].user_response = AnswerValue

\* C34: a response stored for a Dialogue block after its start event
\* reaches the block's response output
C34_ResponseNeverLost ==
    \A d \in 1..MaxDialogueBlocks :
        [](Answered(d) => <>(IsDialogue(d) /\ obj[d].outputs["response"] = AnswerValue))

\* the connectors in the outgoing lists of the blocks of the project
ListedConnectors(o) == UNION {SeqToSet(Outgoing(o[b])) : b \in blocks \cap DOMAIN o}

Ends(c) == <<c.source_block, c.source_output_key, c.target_block, c.target_input_key>>

\* C35: a step that takes connectors out of the outgoing lists while the
\* project's blocks stay takes out the connectors of one (source, output,
\* target, input) and all of them, and every connector that stays listed
\* and was the incoming reference of its target's input still is
C35_RemoveConnectionExact ==
    [][LET removed == ListedConnectors(obj) \ ListedConnectors(obj')
       IN  (blocks' = blocks /\ removed # {}) =>
              /\ \E c \in removed :
                    removed = {d \in ListedConnectors(obj) : Ends(d) = Ends(c)}
              /\ \A d \in ListedConnectors(obj') :
                    obj[d.target_block].input_connectors[d.target_input_key] = d
                    => obj'[d.target_block].input_connectors[d.target_input_key] = d
      ]_vars

\* the block is on a cycle of the subgraph reachable from the Start blocks
OnCycle(b) == b \in PathReachable /\ b \in DOMAIN obj /\ b \in PathClosure(Successors(b))

\* the block is on such a cycle or depends on a block that is
BehindCycle(b) == \E c \in PathReachable : OnCycle(c) /\ b \in PathClosure({c})

Executions(b) == {i \in DOMAIN executed : executed[i] = b}

\* C36: a block on a cycle of the reachable subgraph, or depending on one,
\* is never started nor executed; when the run has ended every other
\* reachable block has executed exactly once and the stream ends with
\* complete; and a run over a subgraph with a cycle does end
C36_CycleBlocksSkipped ==
    /\ [](\A b \in DOMAIN obj :
            /\ BehindCycle(b) => (Executions(b) = {} /\ StartedAt(b) = {})
            /\ (pc = "done" /\ b \in PathReachable /\ ~BehindCycle(b))
                   => Cardinality(Executions(b)) = 1)
    /\ [](pc = "done" => events[Len(events)] = Event("complete", 0))
    /\ (pc \notin {"idle", "done"} /\ \E c \in DOMAIN obj : OnCycle(c)) ~> (pc = "done")

\* a run has ended over a Start block, a block on a cycle behind it and a
\* block that depends on the cycle
C36_Witness ==
    /\ pc = "done"
    /\ \E c \in blocks, d \in blocks :
         /\ OnCycle(c)
         /\ d \in Successors(c)
         /\ ~OnCycle(d)
    /\ Len(executed) >= 1

\* C37: every block of the project has an incoming-connector entry for
\* each of its inputs and for nothing else, and an outgoing list for each
\* of its outputs and for nothing else
C37_ConnectorMapsMatchPorts ==
    \A b \in blocks :
        /\ DOMAIN obj[b].input_connectors = DOMAIN obj[b].inputs
        /\ DOMAIN obj[b].output_connectors = DOMAIN obj[b].outputs

\* C38: the hidden inputs of every block of the project are inputs of the
\* block, and its hidden outputs are outputs of the block
C38_HiddenPortsExist ==
    \A b \in blocks :
        /\ obj[b].hidden_inputs \subseteq DOMAIN obj[b].inputs
        /\ obj[b].hidden_outputs \subseteq DOMAIN obj[b].outputs

====
